---- MODULE Spec2Model ----
(***************************************************************************)
(* Diamond classification pipeline: the pickup grader                      *)
(* (src/src/grading/pickup_grader.py), the mask merging and nested-region  *)
(* removal of the detector (src/src/preprocessing/sam_detector.py), the    *)
(* rule-based decision (src/src/classification/                            *)
(* pure_geometric_classifier.py), and classify_image with its batch        *)
(* driver (src/src/core.py, src/process_batch.py).                         *)
(*                                                                         *)
(* Numbers.  The code computes in floating point; the model computes in     *)
(* exact arithmetic.  Lengths are fixed-point integers, Scale ticks to a    *)
(* pixel, so that radius/3 and min_distance_mm*image_width_px/plate_width_mm*)
(* are exact.  A region's area is held in units of pi square pixels and is  *)
(* a perfect square, so that sqrt(area/pi) is exact; centres are chosen so  *)
(* that every centre distance the grader takes is an integer.  Grades are   *)
(* exact fractions num/den.                                                 *)
(***************************************************************************)
EXTENDS Integers, Sequences, FiniteSets, TLC

VARIABLES
    grader,            \* the PickupGrader object (fields set by __init__)
    diamond_rois,      \* argument of grade_diamonds: the regions of one image
    graded_diamonds,   \* result of grade_diamonds
    pc,                \* position of the modelled caller
    probe,             \* inputs and results of the grade formula on its own
    nested_in,         \* argument of _remove_nested_rois
    to_remove,         \* the indices _remove_nested_rois marked
    filtered_rois,     \* result of _remove_nested_rois
    detector,          \* the SAMDiamondDetector object (merge settings)
    masks_list,        \* argument of _merge_masks: pixel sets of the raw masks
    merged,            \* result of _merge_masks
    remerged,          \* result of _merge_masks applied to its own result
    decision,          \* one region's measurements and what the classifier made of them
    classifier,        \* the DiamondClassifier object of process_batch
    batch,             \* locals and output files of process_batch
    call,              \* locals of the classify_image call under way
    vis_image,         \* what visualize_pickup_order drew for the graded regions
    candidate,         \* one candidate's measurements and _is_valid_diamond_shape's verdict
    mirror,            \* the two halves of one region and their mirror-symmetry score
    reorder,           \* a reordering of diamond_rois and its grades
    rescored,          \* the decision after one primary score was raised
    verifier,          \* the InteractiveVerifier object
    session            \* verify_batch: its files, its position, the keys pressed

mergeVars == <<detector, masks_list, merged, remerged>>

decisionVars == <<decision>>

\* the variables of the operations modelled further down
pipelineVars == <<classifier, batch, call>>

drawVars == <<vis_image>>

shapeVars == <<candidate>>

mirrorVars == <<mirror>>

orderVars == <<reorder>>

rescoreVars == <<rescored>>

verifyVars == <<verifier, session>>

laterVars == <<mergeVars, decisionVars, pipelineVars, drawVars, shapeVars,
               mirrorVars, orderVars, rescoreVars, verifyVars>>

\* the variables of the grader and of the nested-region removal
earlierVars == <<grader, diamond_rois, graded_diamonds, probe,
                 nested_in, to_remove, filtered_rois>>

vars == <<grader, diamond_rois, graded_diamonds, pc, probe,
          nested_in, to_remove, filtered_rois, laterVars>>

(***************************************************************************)
(* Bounds                                                                  *)
(***************************************************************************)
MaxRois == 3        \* regions in one graded image
MaxDetected == 3    \* regions handed to _remove_nested_rois

(***************************************************************************)
(* Fixed-point lengths and Python/numpy float values                       *)
(***************************************************************************)
plate_width_mm == 100
min_distance_mm == 2

\* ticks per pixel: radius/3 and min_distance_mm/plate_width_mm are exact
Scale == 3 * (plate_width_mm \div min_distance_mm)

None == [some |-> FALSE, val |-> 0]
Some(v) == [some |-> TRUE, val |-> v]

\* a float that is a fraction, normalised to a positive denominator
Frac(n, d) == IF d < 0 THEN [kind |-> "num", num |-> -n, den |-> -d]
              ELSE [kind |-> "num", num |-> n, den |-> d]
NaN == [kind |-> "nan", num |-> 0, den |-> 1]
PosInf == [kind |-> "inf", num |-> 1, den |-> 1]
NoGrade == [kind |-> "None", num |-> 0, den |-> 1]
Invalid == Frac(-1, 1)

\* numpy float64 division: x/0 is nan for x = 0 and +-inf otherwise
\* (only x >= 0 occurs: the caller has edge_distance >= safety_threshold)
NpDivide(n, d) == IF d = 0 THEN (IF n = 0 THEN NaN ELSE PosInf) ELSE Frac(n, d)

Times10(x) == IF x.kind = "num" THEN Frac(10 * x.num, x.den) ELSE x

\* Python max(0.0, x): x when x > 0.0, else 0.0 (nan > 0.0 is False)
PyMax0(x) == IF x.kind = "inf" THEN x
             ELSE IF x.kind = "num" /\ x.num > 0 THEN x
             ELSE Frac(0, 1)

\* Python min(10.0, x): x when x < 10.0, else 10.0
PyMin10(x) == IF x.kind = "num" /\ x.num < 10 * x.den THEN x ELSE Frac(10, 1)

\* comparisons of grades that are fractions
RatLeq(a, b) == a.num * b.den <= b.num * a.den
RatEq(a, b) == a.num * b.den = b.num * a.den

Abs(x) == IF x < 0 THEN -x ELSE x

\* exact square root of a perfect square
Sqrt(n) == CHOOSE r \in 0..n : r * r = n

\* sqrt(dx^2 + dy^2) where it is an integer (it is at most |dx| + |dy|)
HasHypot(dx, dy) == \E r \in 0..(Abs(dx) + Abs(dy)) : r * r = dx * dx + dy * dy
Hypot(dx, dy) == CHOOSE r \in 0..(Abs(dx) + Abs(dy)) : r * r = dx * dx + dy * dy

\* np.sqrt(roi.area / np.pi), in ticks
Radius(roi) == Scale * Sqrt(roi.area)

\* np.linalg.norm(target_center - other_center), in ticks
Norm(c1, c2) == Scale * Hypot(c1[1] - c2[1], c1[2] - c2[2])

(***************************************************************************)
(* PickupGrader                                                            *)
(***************************************************************************)
\* __init__: px_per_mm and min_distance_px
PickupGrader(check_orientation, image_width_px) ==
    [check_orientation |-> check_orientation,
     image_width_px |-> image_width_px,
     min_distance_px |->
        IF image_width_px.some
        THEN Some((min_distance_mm * image_width_px.val * Scale) \div plate_width_mm)
        ELSE None]

\* the circular test looks at the detected type alone
SafetyThresholdIgnoringOrientation(g, roi) ==
    IF g.min_distance_px.some THEN g.min_distance_px.val
    ELSE IF roi.detected_type = "round" THEN Radius(roi) ELSE Radius(roi) \div 3

_get_safety_threshold(g, roi) ==
    IF g.min_distance_px.some THEN g.min_distance_px.val
    ELSE LET radius == Radius(roi)
             is_circular == roi.detected_type = "round" /\ roi.orientation = "table"
         IN IF is_circular THEN radius ELSE radius \div 3

\* the scan passes over Tilted regions as if they were not there
RECURSIVE NearestLoopSkippingTilted(_, _, _, _, _)
NearestLoopSkippingTilted(g, target_roi, all_rois, k, acc) ==
    IF k > Len(all_rois) THEN acc
    ELSE LET roi == all_rois[k] IN
         IF roi.id = target_roi.id \/ roi.orientation = "tilted"
         THEN NearestLoopSkippingTilted(g, target_roi, all_rois, k + 1, acc)
         ELSE LET target_threshold == _get_safety_threshold(g, target_roi)
                  other_threshold == _get_safety_threshold(g, roi)
                  edge_distance == Norm(target_roi.center, roi.center)
                                     - Radius(target_roi) - Radius(roi)
              IN NearestLoopSkippingTilted(g, target_roi, all_rois, k + 1,
                    IF (~acc.found) \/ edge_distance < acc.min_edge_distance
                    THEN [found |-> TRUE,
                          min_edge_distance |-> edge_distance,
                          required_threshold |->
                              IF target_threshold < other_threshold
                              THEN target_threshold ELSE other_threshold]
                    ELSE acc)

\* the loop of _find_nearest_edge_distance over all_rois[k..], carrying
\* (min_edge_distance, required_threshold); min_edge_distance starts at inf
RECURSIVE NearestLoop(_, _, _, _, _)
NearestLoop(g, target_roi, all_rois, k, acc) ==
    IF k > Len(all_rois) THEN acc
    ELSE LET roi == all_rois[k] IN
         IF roi.id = target_roi.id
         THEN NearestLoop(g, target_roi, all_rois, k + 1, acc)
         ELSE LET target_threshold == _get_safety_threshold(g, target_roi)
                  other_threshold == _get_safety_threshold(g, roi)
                  center_distance == Norm(target_roi.center, roi.center)
                  edge_distance == center_distance - Radius(target_roi) - Radius(roi)
                  lower == (~acc.found) \/ edge_distance < acc.min_edge_distance
              IN NearestLoop(g, target_roi, all_rois, k + 1,
                    IF lower
                    THEN [found |-> TRUE,
                          min_edge_distance |-> edge_distance,
                          required_threshold |->
                              IF target_threshold < other_threshold
                              THEN target_threshold ELSE other_threshold]
                    ELSE acc)

\* returns <<edge_distance, safety_threshold>>; found = FALSE is float('inf')
_find_nearest_edge_distance(g, target_roi, all_rois) ==
    LET acc == NearestLoop(g, target_roi, all_rois, 1,
                   [found |-> FALSE, min_edge_distance |-> 0,
                    required_threshold |-> _get_safety_threshold(g, target_roi)])
    IN <<IF acc.found THEN acc.min_edge_distance ELSE 0, acc.required_threshold>>

\* the ramp runs downwards from the threshold
GradeOfReversedRamp(edge_distance, safety_threshold, radius) ==
    IF edge_distance < safety_threshold THEN Invalid
    ELSE PyMin10(PyMax0(Times10(NpDivide(6 * radius - edge_distance,
                                         6 * radius - safety_threshold))))

\* "very isolated" taken as 3 radii
GradeOfThreeRadii(edge_distance, safety_threshold, radius) ==
    IF edge_distance < safety_threshold THEN Invalid
    ELSE PyMin10(PyMax0(Times10(NpDivide(edge_distance - safety_threshold,
                                         3 * radius - safety_threshold))))

\* lines 92-103 of grade_diamonds: the grade from the nearest edge distance
GradeOf(edge_distance, safety_threshold, radius) ==
    IF edge_distance < safety_threshold THEN Invalid
    ELSE LET min_valid_distance == safety_threshold
             max_distance == 6 * radius
             normalized == NpDivide(edge_distance - min_valid_distance,
                                    max_distance - min_valid_distance)
         IN PyMin10(PyMax0(Times10(normalized)))

\* the orientation is never looked at
GradeRoiWithoutOrientation(g, roi, all_rois) ==
    LET nearest == _find_nearest_edge_distance(g, roi, all_rois)
    IN [roi |-> roi.id,
        grade |-> GradeOf(nearest[1], nearest[2], Radius(roi)),
        nearest_distance |-> Some(nearest[1]),
        radius |-> Radius(roi)]

\* one iteration of the loop of grade_diamonds
GradeRoi(g, roi, all_rois) ==
    LET radius == Radius(roi) IN
    IF g.check_orientation /\ roi.orientation = "tilted"
    THEN [roi |-> roi.id, grade |-> NoGrade, nearest_distance |-> None,
          radius |-> radius]
    ELSE LET nearest == _find_nearest_edge_distance(g, roi, all_rois)
         IN [roi |-> roi.id,
             grade |-> GradeOf(nearest[1], nearest[2], radius),
             nearest_distance |-> Some(nearest[1]),
             radius |-> radius]

\* a detector that has merged nothing
MergeIdle ==
    /\ detector = [merge_overlapping |-> FALSE, overlap_threshold |-> 25]
    /\ masks_list = <<>>
    /\ merged = <<>>
    /\ remerged = <<>>

\* no region handed to the geometric classifier
NoDecision ==
    [region |-> [roi_image |-> "none", mask |-> "none", contour_len |-> 0],
     outline_sym |-> 0, reflection_sym |-> 0, has_spot |-> FALSE,
     spot_sym |-> 0, aspect_ratio |-> 0,
     via |-> "none", raised |-> FALSE,
     orientation |-> "none", confidence |-> [kind |-> "None", num |-> 0, den |-> 1]]

DecisionIdle == decision = NoDecision

\* DiamondClassifier.__init__: no detector, no grader, nothing classified
NewClassifier ==
    [detector |-> None, grader |-> None, has_last |-> FALSE,
     _last_graded_diamonds |-> <<>>, _last_image |-> 0]

\* the ImageResult of an image without regions (core.py lines 119-128)
EmptyResult(image_name) ==
    [image_name |-> image_name, total_diamonds |-> 0, table_count |-> 0,
     tilted_count |-> 0, pickable_count |-> 0, invalid_count |-> 0,
     average_grade |-> Frac(0, 1), classifications |-> <<>>]

\* no classify_image call under way
NoCall ==
    [image |-> 0, height |-> 0, width |-> 0, diamond_rois |-> <<>>, k |-> 1,
     table_count |-> 0, tilted_count |-> 0, classifications |-> <<>>,
     graded_diamonds |-> <<>>, invoked |-> {}, result |-> EmptyResult(0)]

\* process_batch before its loop, for the files found
NewBatch(image_files) ==
    [model_file_exists |-> TRUE, image_files |-> image_files, img_idx |-> 1,
     total_images |-> 0, total_diamonds |-> 0, total_table |-> 0,
     total_tilted |-> 0, batch_results |-> <<>>,
     json_files |-> <<>>, vis_files |-> <<>>, summary |-> None]

PipelineIdle ==
    /\ classifier = NewClassifier
    /\ batch = NewBatch(<<>>)
    /\ call = NoCall

\* nothing drawn
NoVisImage == [done |-> FALSE, image |-> 0, drawn |-> <<>>]

DrawIdle == vis_image = NoVisImage

\* no candidate handed to _is_valid_diamond_shape
NoShape ==
    [contour_area |-> 0, hull_area |-> 0, num_labels |-> 1, w |-> 0, h |-> 0,
     perimeter |-> 0, done |-> FALSE, valid |-> FALSE]

ShapeIdle == candidate = NoShape

\* no halves measured
NoMirror ==
    [num_spots |-> 0, m00 |-> 0, valid |-> 0, left_std_zero |-> FALSE,
     right_std_zero |-> FALSE, correlation |-> 0, brightness_diff |-> 0,
     via |-> "none", score |-> [kind |-> "None", num |-> 0, den |-> 1]]

MirrorIdle == mirror = NoMirror

\* no reordering graded
NoReorder == [rois |-> <<>>, graded |-> <<>>]

OrderIdle == reorder = NoReorder

\* no score raised
NoRescored ==
    [which |-> "none", outline_sym |-> 0, reflection_sym |-> 0, aspect_ratio |-> 0,
     orientation |-> "none", confidence |-> [kind |-> "None", num |-> 0, den |-> 1]]

RescoreIdle == rescored = NoRescored

\* InteractiveVerifier.__init__ (current_result is known by the predicted
\* orientations of its classifications, current_image_path by the position
\* of the file)
NewVerifier ==
    [verifications |-> <<>>, current_idx |-> 0, should_quit |-> FALSE,
     current_image_path |-> 0, current_result |-> <<>>]

\* verify_batch before it has listed its files: the files, the position of
\* the for loop, whether a figure is open, whether 'q' was pressed, and the
\* file save_verifications wrote
NoSession ==
    [image_files |-> <<>>, img_idx |-> 1, figure |-> FALSE, q_pressed |-> FALSE,
     saved |-> <<>>]

VerifyIdle == verifier = NewVerifier /\ session = NoSession

\* the objects of the operations modelled further down, before any call
LaterIdle ==
    /\ MergeIdle /\ DecisionIdle /\ PipelineIdle /\ DrawIdle /\ ShapeIdle
    /\ MirrorIdle /\ OrderIdle /\ RescoreIdle /\ VerifyIdle

(***************************************************************************)
(* Inputs of the grader                                                    *)
(***************************************************************************)
Centers == {<<100, 100>>, <<115, 100>>, <<160, 100>>, <<100, 180>>}
Areas == {25, 400}                 \* area/pi: radius 5 and radius 20 pixels
ImageWidths == {500, 2000}         \* min_distance_px = 10 and 40 pixels

RoiAttrs == [area : Areas, detected_type : {"round", "other"},
             orientation : {"table", "tilted"}]

\* pairwise different centres at integer distances from each other
Placeable(cs) ==
    \A i \in DOMAIN cs : \A j \in DOMAIN cs : i < j =>
        /\ cs[i] # cs[j]
        /\ HasHypot(cs[i][1] - cs[j][1], cs[i][2] - cs[j][2])

\* a list of regions with ids 0..n-1 as the detector assigns them
RoiList(cs, at) ==
    [i \in DOMAIN cs |->
        [id |-> i - 1, center |-> cs[i], area |-> at[i].area,
         detected_type |-> at[i].detected_type,
         orientation |-> at[i].orientation]]

\* no probe of the grade formula is under way
NoProbe == [radius |-> 0, threshold |-> 0, d1 |-> 0, d2 |-> 0,
            done |-> FALSE, g1 |-> NoGrade, g2 |-> NoGrade]

InitGrade ==
    /\ \E co \in BOOLEAN, w \in {None} \cup {Some(x) : x \in ImageWidths} :
           grader = PickupGrader(co, w)
    /\ \E n \in 0..MaxRois :
         \E cs \in [1..n -> Centers] :
            /\ Placeable(cs)
            /\ \E at \in [1..n -> RoiAttrs] : diamond_rois = RoiList(cs, at)
    /\ graded_diamonds = <<>>
    /\ pc = "start"
    /\ probe = NoProbe
    /\ nested_in = <<>>
    /\ to_remove = {}
    /\ filtered_rois = <<>>
    /\ LaterIdle

\* gd.grade is not None and gd.grade >= 0
IsPickable(gd) ==
    gd.grade.kind = "inf" \/ (gd.grade.kind = "num" /\ gd.grade.num >= 0)

\* a region without grade counts as too close as well
IsInvalidOrUngraded(gd) ==
    gd.grade.kind = "None" \/ (gd.grade.kind = "num" /\ gd.grade.num = -gd.grade.den)

\* gd.grade == -1
IsInvalid(gd) == gd.grade.kind = "num" /\ gd.grade.num = -gd.grade.den

\* gd.grade is None
IsTilted(gd) == gd.grade.kind = "None"

\* the BGR colours of visualize_pickup_order
Red == <<0, 0, 255>>
Orange == <<0, 165, 255>>
Green == <<0, 255, 0>>

\* the tests of the three list comprehensions (lines 319, 334, 351)
Chosen(loop, gd) ==
    IF loop = "tilted" THEN IsTilted(gd)
    ELSE IF loop = "invalid" THEN IsInvalid(gd)
    ELSE IsPickable(gd)

\* the outlines one of the three loops draws: the position in graded_diamonds
\* of the region and the colour
RECURSIVE DrawLoop(_, _, _, _)
DrawLoop(gds, i, loop, color) ==
    IF i > Len(gds) THEN <<>>
    ELSE IF Chosen(loop, gds[i])
         THEN <<[gd |-> i, color |-> color]>> \o DrawLoop(gds, i + 1, loop, color)
         ELSE DrawLoop(gds, i + 1, loop, color)

\* the loop over the tilted regions is missing
VisualizeWithoutTilted(image, gds) ==
    [done |-> TRUE, image |-> image,
     drawn |-> DrawLoop(gds, 1, "invalid", Orange)
               \o DrawLoop(gds, 1, "pickable", Green)]

\* visualize_pickup_order (lines 298-365): tilted, then too close, then pickable
visualize_pickup_order(image, gds) ==
    [done |-> TRUE, image |-> image,
     drawn |-> DrawLoop(gds, 1, "tilted", Red)
               \o DrawLoop(gds, 1, "invalid", Orange)
               \o DrawLoop(gds, 1, "pickable", Green)]

\* grade_diamonds(diamond_rois)
grade_diamonds ==
    /\ pc = "start"
    /\ graded_diamonds' = [i \in 1..Len(diamond_rois) |->
                              GradeRoi(grader, diamond_rois[i], diamond_rois)]
    /\ pc' = "graded"
    /\ UNCHANGED <<grader, diamond_rois, probe, nested_in, to_remove, filtered_rois, laterVars>>

\* visualize_pickup_order on the graded regions
visualize ==
    /\ pc = "graded"
    /\ ~vis_image.done
    /\ vis_image' = visualize_pickup_order(0, graded_diamonds)
    /\ UNCHANGED <<grader, diamond_rois, graded_diamonds, pc, probe, nested_in,
                   to_remove, filtered_rois, mergeVars, decisionVars, pipelineVars, shapeVars,
                   mirrorVars, orderVars, rescoreVars, verifyVars>>

NextGrade == grade_diamonds \/ visualize

SpecGrade == InitGrade /\ [][NextGrade]_vars

(***************************************************************************)
(* The grade formula on its own: GradeOf at two distances d1, d2 for one   *)
(* radius and one threshold (any unit of length)                           *)
(***************************************************************************)
MaxProbeRadius == 2
MaxProbeThreshold == 13
MaxProbeDistance == 14

InitGradeFn ==
    /\ \E r \in 1..MaxProbeRadius, t \in 1..MaxProbeThreshold,
          d1 \in -MaxProbeDistance..MaxProbeDistance,
          d2 \in -MaxProbeDistance..MaxProbeDistance :
           probe = [NoProbe EXCEPT !.radius = r, !.threshold = t,
                                   !.d1 = d1, !.d2 = d2]
    /\ grader = PickupGrader(TRUE, None)
    /\ diamond_rois = <<>>
    /\ graded_diamonds = <<>>
    /\ pc = "start"
    /\ nested_in = <<>>
    /\ to_remove = {}
    /\ filtered_rois = <<>>
    /\ LaterIdle

\* lines 92-103 applied to the two distances
GradeProbe ==
    /\ probe.radius > 0 /\ ~probe.done
    /\ probe' = [probe EXCEPT
                   !.done = TRUE,
                   !.g1 = GradeOf(probe.d1, probe.threshold, probe.radius),
                   !.g2 = GradeOf(probe.d2, probe.threshold, probe.radius)]
    /\ UNCHANGED <<grader, diamond_rois, graded_diamonds, pc,
                   nested_in, to_remove, filtered_rois, laterVars>>

NextGradeFn == GradeProbe

SpecGradeFn == InitGradeFn /\ [][NextGradeFn]_vars

(***************************************************************************)
(* Definitions the properties of the grader are stated with                *)
(***************************************************************************)
Graded == pc = "graded"
Rois == 1..Len(diamond_rois)
Others(i) == Rois \ {i}

\* edge-to-edge distance of two regions: centre distance minus both radii
EdgeBetween(a, b) == Norm(a.center, b.center) - Radius(a) - Radius(b)

\* the threshold grade_diamonds used for region i
ThresholdUsed(i) == _find_nearest_edge_distance(grader, diamond_rois[i], diamond_rois)[2]

\* some other region is closer to region i than t
CloserThan(i, t) ==
    \E j \in Others(i) : EdgeBetween(diamond_rois[i], diamond_rois[j]) < t

\* region j is a nearest other region of region i
IsNearest(i, j) ==
    /\ j \in Others(i)
    /\ \A k \in Others(i) : EdgeBetween(diamond_rois[i], diamond_rois[j])
                              <= EdgeBetween(diamond_rois[i], diamond_rois[k])

Ten == Frac(10, 1)
Zero == Frac(0, 1)

\* clamp(10 * n / d, 0, 10) for d # 0
Clamp10(n, d) ==
    LET v == Frac(10 * n, d) IN
    IF v.num <= 0 THEN Zero ELSE IF v.num >= 10 * v.den THEN Ten ELSE v

InRange0to10(g) == g.kind = "num" /\ RatLeq(Zero, g) /\ RatLeq(g, Ten)

Px(n) == Scale * n

\* C1: with orientation checking enabled every Tilted region is graded
\* NotApplicable (None) and has no nearest distance, whatever the other
\* regions are and however near they lie.
C1_TiltedNotApplicable ==
    (Graded /\ grader.check_orientation) =>
        \A i \in Rois : diamond_rois[i].orientation = "tilted" =>
            /\ graded_diamonds[i].grade = NoGrade
            /\ graded_diamonds[i].nearest_distance = None

\* a Tilted region overlapped by a neighbour and a Tilted region with every
\* neighbour beyond the threshold have been graded with orientation checking on
C1_Witness ==
    /\ Graded /\ grader.check_orientation
    /\ \E i \in Rois : diamond_rois[i].orientation = "tilted" /\ CloserThan(i, 0)
    /\ \E i \in Rois : /\ diamond_rois[i].orientation = "tilted"
                       /\ Others(i) # {}
                       /\ ~CloserThan(i, ThresholdUsed(i))

\* C2: an image with exactly one region, not Tilted: the region gets the
\* maximal grade 10 and is never Invalid.
C2_IsolatedMaximal ==
    (Graded /\ Len(diamond_rois) = 1 /\ diamond_rois[1].orientation # "tilted") =>
        /\ graded_diamonds[1].grade # Invalid
        /\ graded_diamonds[1].grade = Ten

\* what C3 states of region i: Invalid exactly when another region is nearer
\* than the required threshold, else the clamped ramp over the minimum edge
\* distance (no other region: no distance is below the threshold and the
\* distance is infinite, so the ramp is at its top)
ExpectedGrade(i) ==
    LET t == ThresholdUsed(i)
        r == Radius(diamond_rois[i])
    IN IF CloserThan(i, t) THEN Invalid
       ELSE IF Others(i) = {} THEN Ten
       ELSE LET j == CHOOSE j \in Others(i) : IsNearest(i, j)
                d == EdgeBetween(diamond_rois[i], diamond_rois[j])
            IN Clamp10(d - t, 6 * r - t)

\* two regions of radius 20 with centres 15 apart, threshold 10 pixels
C3_Example ==
    /\ Len(diamond_rois) = 2
    /\ grader.min_distance_px = Some(Px(10))
    /\ \A i \in Rois : diamond_rois[i].area = 400 /\ diamond_rois[i].orientation = "table"
    /\ {diamond_rois[1].center, diamond_rois[2].center} = {<<100, 100>>, <<115, 100>>}

\* C3: every non-Tilted region is Invalid (-1) exactly when its minimum edge
\* distance to another region is strictly below the required threshold, and
\* otherwise has the grade clamp(10*(d - t)/(6r - t), 0, 10), within [0,10];
\* in the example both regions are Invalid.
C3_InvalidIffBelowThreshold ==
    Graded =>
        /\ \A i \in Rois : diamond_rois[i].orientation # "tilted" =>
              /\ (graded_diamonds[i].grade = Invalid) <=> CloserThan(i, ThresholdUsed(i))
              /\ RatEq(graded_diamonds[i].grade, ExpectedGrade(i))
              /\ graded_diamonds[i].grade # Invalid => InRange0to10(graded_diamonds[i].grade)
        /\ C3_Example => \A i \in Rois : graded_diamonds[i].grade = Invalid

\* C4: a non-Tilted region that is not Invalid has grade 0 when its nearest
\* edge distance equals the required threshold and grade 10 whenever that
\* distance is at least 6 times its radius, with a fixed or a radius-based
\* threshold.
C4_LinearRamp ==
    Graded =>
        \A i \in Rois :
            (/\ diamond_rois[i].orientation # "tilted"
             /\ graded_diamonds[i].grade # Invalid) =>
                LET d == graded_diamonds[i].nearest_distance.val
                    t == ThresholdUsed(i)
                    r == Radius(diamond_rois[i])
                IN /\ d = t => RatEq(graded_diamonds[i].grade, Zero)
                   /\ d >= 6 * r => RatEq(graded_diamonds[i].grade, Ten)

\* C5: with radius and threshold fixed, d1 <= d2 implies grade(d1) <= grade(d2),
\* Invalid counting as -1, over negative distances too.
C5_GradeMonotone ==
    (probe.done /\ probe.d1 <= probe.d2) => RatLeq(probe.g1, probe.g2)

\* an overlapping distance graded Invalid and a larger distance graded
\* strictly inside the ramp
C5_Witness ==
    /\ probe.done
    /\ probe.d1 < 0 /\ probe.d1 < probe.d2
    /\ probe.g1 = Invalid
    /\ ~RatLeq(probe.g2, Zero) /\ ~RatLeq(Ten, probe.g2)

MinOf(a, b) == IF a < b THEN a ELSE b

\* C6: _find_nearest_edge_distance takes every other region as an obstacle,
\* Tilted ones included: the distance it returns is the minimum over the other
\* regions of centre distance - own radius - other radius, and the threshold it
\* returns is min(own threshold, threshold of a region attaining that minimum).
C6_NearestOverAllOthers ==
    Graded =>
        \A i \in Rois : Others(i) # {} =>
            LET nearest == _find_nearest_edge_distance(grader, diamond_rois[i], diamond_rois)
                own == _get_safety_threshold(grader, diamond_rois[i])
            IN /\ \A k \in Others(i) :
                     nearest[1] <= EdgeBetween(diamond_rois[i], diamond_rois[k])
               /\ \E j \in Others(i) :
                     /\ nearest[1] = EdgeBetween(diamond_rois[i], diamond_rois[j])
                     /\ nearest[2] = MinOf(own, _get_safety_threshold(grader, diamond_rois[j]))
               /\ graded_diamonds[i].grade # NoGrade =>
                     graded_diamonds[i].nearest_distance = Some(nearest[1])

\* a Table region was graded whose only nearest region is Tilted, with a
\* Table region farther away, and the Tilted one's threshold is below its own
C6_Witness ==
    /\ Graded /\ grader.check_orientation
    /\ \E i \in Rois : \E j \in Others(i) : \E k \in Others(i) \ {j} :
          /\ diamond_rois[i].orientation = "table"
          /\ diamond_rois[j].orientation = "tilted"
          /\ diamond_rois[k].orientation = "table"
          /\ EdgeBetween(diamond_rois[i], diamond_rois[j])
               < EdgeBetween(diamond_rois[i], diamond_rois[k])
          /\ _get_safety_threshold(grader, diamond_rois[j])
               < _get_safety_threshold(grader, diamond_rois[i])
          /\ graded_diamonds[i].nearest_distance
               = Some(EdgeBetween(diamond_rois[i], diamond_rois[j]))

\* C7: the safety threshold of a region is the fixed clearance
\* min_distance_mm * image_width_px / plate_width_mm when an image width is
\* configured, whatever the region; otherwise the region's radius sqrt(area/pi)
\* when it is Round and Table and a third of that radius for every other region.
C7_SafetyThreshold ==
    \A i \in Rois :
        LET roi == diamond_rois[i]
            t == _get_safety_threshold(grader, roi)
        IN /\ t >= 0
           /\ IF grader.image_width_px.some
              THEN t * plate_width_mm = min_distance_mm * grader.image_width_px.val * Scale
              ELSE IF roi.detected_type = "round" /\ roi.orientation = "table"
                   THEN t * t = Scale * Scale * roi.area
                   ELSE 9 * t * t = Scale * Scale * roi.area

\* without a configured width, an image with a Round Table, a Round Tilted and
\* a non-round Table region was graded
C7_Witness ==
    /\ Graded /\ ~grader.image_width_px.some
    /\ \E i \in Rois : diamond_rois[i].detected_type = "round"
                       /\ diamond_rois[i].orientation = "table"
    /\ \E i \in Rois : diamond_rois[i].detected_type = "round"
                       /\ diamond_rois[i].orientation = "tilted"
    /\ \E i \in Rois : diamond_rois[i].detected_type = "other"
                       /\ diamond_rois[i].orientation = "table"

\* threshold 10 pixels, two Table regions of radius 20 at (100,100), (160,100)
C8_Example ==
    /\ Len(diamond_rois) = 2
    /\ grader.min_distance_px = Some(Px(10))
    /\ \A i \in Rois : diamond_rois[i].area = 400 /\ diamond_rois[i].orientation = "table"
    /\ {diamond_rois[1].center, diamond_rois[2].center} = {<<100, 100>>, <<160, 100>>}

\* C8: in the example both regions have edge distance 20, neither is Invalid
\* and both get the grade 10*(20-10)/(120-10) = 10/11.
C8_WorkedExample ==
    (Graded /\ C8_Example) =>
        \A i \in Rois :
            /\ graded_diamonds[i].nearest_distance = Some(Px(20))
            /\ graded_diamonds[i].grade # Invalid
            /\ graded_diamonds[i].grade.kind = "num"
            /\ RatEq(graded_diamonds[i].grade, Frac(10, 11))

C8_Witness == Graded /\ C8_Example

(***************************************************************************)
(* SAMDiamondDetector._remove_nested_rois                                  *)
(*                                                                         *)
(* A contour is the set of lattice points of the closed polygon it         *)
(* encloses, so that cv2.pointPolygonTest(contour, p, False) >= 0 is       *)
(* p \in contour.  Positions in a list count from 1; ids count from 0.      *)
(***************************************************************************)
Rect(x0, y0, x1, y1) == {<<x, y>> : x \in x0..x1, y \in y0..y1}

MinIn(S) == CHOOSE m \in S : \A n \in S : m <= n
MaxIn(S) == CHOOSE m \in S : \A n \in S : m >= n

\* cv2.boundingRect(contour): (x, y, w, h)
BoundingRect(contour) ==
    LET xs == {p[1] : p \in contour}
        ys == {p[2] : p \in contour}
    IN <<MinIn(xs), MinIn(ys), MaxIn(xs) - MinIn(xs) + 1, MaxIn(ys) - MinIn(ys) + 1>>

RECURSIVE SumOf(_, _)
SumOf(S, c) == IF S = {} THEN 0
               ELSE LET p == CHOOSE p \in S : TRUE IN p[c] + SumOf(S \ {p}, c)

\* (m10/m00, m01/m00), rounded down to the lattice
Centroid(contour) ==
    <<SumOf(contour, 1) \div Cardinality(contour),
      SumOf(contour, 2) \div Cardinality(contour)>>

\* the DiamondROI that detect builds for a contour (lines 242-257)
DiamondROI(i, contour) ==
    [id |-> i, contour |-> contour, bounding_box |-> BoundingRect(contour),
     center |-> Centroid(contour), area |-> Cardinality(contour)]

\* roi_i is dropped because of roi_j (lines 280-296)
NestedIn(roi_i, roi_j) ==
    /\ ~(roi_i.area >= roi_j.area)
    /\ roi_i.center \in roi_j.contour
    /\ LET x_i == roi_i.bounding_box[1]
           y_i == roi_i.bounding_box[2]
           w_i == roi_i.bounding_box[3]
           h_i == roi_i.bounding_box[4]
           x_j == roi_j.bounding_box[1]
           y_j == roi_j.bounding_box[2]
           w_j == roi_j.bounding_box[3]
           h_j == roi_j.bounding_box[4]
       IN x_i >= x_j /\ y_i >= y_j /\ (x_i + w_i) <= (x_j + w_j) /\ (y_i + h_i) <= (y_j + h_j)

\* the outer loop from position i on; the inner loop with its break is the
\* search for one j that is not yet in to_remove
RECURSIVE NestedLoop(_, _, _)
NestedLoop(rois, i, removed) ==
    IF i > Len(rois) THEN removed
    ELSE IF i \in removed THEN NestedLoop(rois, i + 1, removed)
    ELSE IF \E j \in 1..Len(rois) :
               i # j /\ j \notin removed /\ NestedIn(rois[i], rois[j])
         THEN NestedLoop(rois, i + 1, removed \cup {i})
         ELSE NestedLoop(rois, i + 1, removed)

\* [roi for idx, roi in enumerate(diamond_rois) if idx not in to_remove]
RECURSIVE FilterFrom(_, _, _)
FilterFrom(rois, i, removed) ==
    IF i > Len(rois) THEN <<>>
    ELSE IF i \in removed THEN FilterFrom(rois, i + 1, removed)
    ELSE <<rois[i]>> \o FilterFrom(rois, i + 1, removed)

\* the surviving regions keep the ids the detection loop gave them
RemoveNestedKeepingIds(rois) ==
    IF Len(rois) <= 1 THEN [to_remove |-> {}, filtered_rois |-> rois]
    ELSE LET removed == NestedLoop(rois, 1, {})
         IN [to_remove |-> removed, filtered_rois |-> FilterFrom(rois, 1, removed)]

_remove_nested_rois(rois) ==
    IF Len(rois) <= 1 THEN [to_remove |-> {}, filtered_rois |-> rois]
    ELSE LET removed == NestedLoop(rois, 1, {})
             filtered == FilterFrom(rois, 1, removed)
         IN [to_remove |-> removed,
             filtered_rois |-> [k \in 1..Len(filtered) |->
                                   [filtered[k] EXCEPT !.id = k - 1]]]

\* contours the segmentation may produce: a block with a notch in one corner,
\* a block that covers the notch and most of the notched block, a block that
\* fills the notch, a block in the opposite corner, a block apart from all,
\* a block that straddles the edge of the notched block
Contours ==
    { Rect(0, 0, 6, 6) \ Rect(4, 4, 6, 6),
      Rect(2, 0, 6, 6),
      Rect(4, 4, 6, 6),
      Rect(0, 0, 2, 2),
      Rect(8, 0, 10, 2),
      Rect(1, 5, 3, 7) }

InitNested ==
    /\ \E n \in 0..MaxDetected : \E cs \in [1..n -> Contours] :
           nested_in = [i \in 1..n |-> DiamondROI(i - 1, cs[i])]
    /\ to_remove = {}
    /\ filtered_rois = <<>>
    /\ pc = "detected"
    /\ grader = PickupGrader(TRUE, None)
    /\ diamond_rois = <<>>
    /\ graded_diamonds = <<>>
    /\ probe = NoProbe
    /\ LaterIdle

\* diamond_rois = self._remove_nested_rois(diamond_rois), the last step of detect
remove_nested_rois ==
    /\ pc = "detected"
    /\ LET res == _remove_nested_rois(nested_in)
       IN /\ to_remove' = res.to_remove
          /\ filtered_rois' = res.filtered_rois
    /\ pc' = "filtered"
    /\ UNCHANGED <<grader, diamond_rois, graded_diamonds, probe, nested_in, laterVars>>

NextNested == remove_nested_rois

SpecNested == InitNested /\ [][NextNested]_vars

Filtered == pc = "filtered"
Detected == 1..Len(nested_in)

\* region b is larger than region a, its contour contains a's centroid and
\* its bounding box contains a's bounding box
Encloses(b, a) ==
    /\ b.area > a.area
    /\ a.center \in b.contour
    /\ a.bounding_box[1] >= b.bounding_box[1]
    /\ a.bounding_box[2] >= b.bounding_box[2]
    /\ a.bounding_box[1] + a.bounding_box[3] <= b.bounding_box[1] + b.bounding_box[3]
    /\ a.bounding_box[2] + a.bounding_box[4] <= b.bounding_box[2] + b.bounding_box[4]

\* C9: after _remove_nested_rois no region survives that some region of the
\* input list encloses, whatever the input order and also when the enclosing
\* region is itself removed as nested in a third one.
C9_NoEnclosedSurvivor ==
    Filtered =>
        \A a \in Detected : a \notin to_remove =>
            ~\E b \in Detected : Encloses(nested_in[b], nested_in[a])

\* the k-th detected position that was not removed
KeptAt(k) ==
    CHOOSE a \in Detected \ to_remove :
        Cardinality({b \in Detected \ to_remove : b <= a}) = k

\* C10: the returned regions carry the ids 0..n-1, without gap or duplicate,
\* in the order in which the surviving regions were detected.
C10_ContiguousIdsInOrder ==
    Filtered =>
        /\ Len(filtered_rois) = Cardinality(Detected \ to_remove)
        /\ \A k \in 1..Len(filtered_rois) :
              /\ filtered_rois[k].id = k - 1
              /\ filtered_rois[k] = [nested_in[KeptAt(k)] EXCEPT !.id = k - 1]

\* a region was removed that was detected before a surviving one
C10_Witness ==
    /\ Filtered
    /\ \E a \in to_remove : \E b \in Detected \ to_remove :
          a < b /\ \E k \in 1..Len(filtered_rois) :
                      KeptAt(k) = b /\ filtered_rois[k].id # nested_in[b].id

(***************************************************************************)
(* SAMDiamondDetector._merge_masks                                         *)
(*                                                                         *)
(* A raw mask gives every pixel a value in tenths; a binary mask is the    *)
(* set of its foreground pixels.  overlap_threshold is in hundredths.      *)
(***************************************************************************)
MaxMasks == 3       \* raw masks handed to _merge_masks

Pixels == {1, 2, 3, 4}

\* no grader, no nested-region removal under way
GradeIdle ==
    /\ grader = PickupGrader(TRUE, None)
    /\ diamond_rois = <<>>
    /\ graded_diamonds = <<>>
    /\ probe = NoProbe

NestedIdle ==
    /\ nested_in = <<>>
    /\ to_remove = {}
    /\ filtered_rois = <<>>

EarlierIdle == GradeIdle /\ NestedIdle

\* (mask > 0.5).astype(np.uint8)
Binarize(mask) == {p \in Pixels : mask[p] > 5}

\* binary.astype(np.float32)
AsFloat32(binary) == [p \in Pixels |-> IF p \in binary THEN 10 ELSE 0]

\* lines 138-146: should_merge for the growing mask and mask_j
ShouldMerge(d, current_merged, current_area, mask_j) ==
    LET area_j == Cardinality(mask_j)
        intersection == Cardinality(current_merged \cap mask_j)
        union == Cardinality(current_merged \cup mask_j)
        \* iou > n/m, with iou = 0.0 when the union is empty
        IouAbove(n, m) == IF union > 0 THEN intersection * m > n * union ELSE FALSE
        containment_j_above_half == area_j > 0 /\ 2 * intersection > area_j
        containment_current_above_half ==
            current_area > 0 /\ 2 * intersection > current_area
        smaller == IF current_area < area_j THEN current_area ELSE area_j
        larger == IF current_area < area_j THEN area_j ELSE current_area
        \* size_ratio > 1.5, with size_ratio = 1.0 when the smaller area is 0
        size_ratio_above == smaller > 0 /\ 2 * larger > 3 * smaller
    IN \/ containment_j_above_half \/ containment_current_above_half
       \/ (IouAbove(d.overlap_threshold, 100) /\ size_ratio_above)
       \/ IouAbove(4, 10)

\* one pass of the for loop over j (lines 131-152)
RECURSIVE MergePass(_, _, _, _)
MergePass(d, binary_masks, j, st) ==
    IF j > Len(binary_masks) THEN st
    ELSE IF st.used[j] THEN MergePass(d, binary_masks, j + 1, st)
    ELSE IF ShouldMerge(d, st.current_merged, st.current_area, binary_masks[j])
         THEN LET grown == st.current_merged \cup binary_masks[j]
              IN MergePass(d, binary_masks, j + 1,
                    [current_merged |-> grown,
                     current_area |-> Cardinality(grown),
                     used |-> [st.used EXCEPT ![j] = TRUE],
                     changed |-> TRUE])
         ELSE MergePass(d, binary_masks, j + 1, st)

\* while changed (lines 128-152)
RECURSIVE MergeWhile(_, _, _)
MergeWhile(d, binary_masks, st) ==
    LET after == MergePass(d, binary_masks, 1, [st EXCEPT !.changed = FALSE])
    IN IF after.changed THEN MergeWhile(d, binary_masks, after) ELSE after

\* the masks an earlier i absorbed are not marked for the later i
RECURSIVE MergeFromForgettingUsed(_, _, _, _, _)
MergeFromForgettingUsed(d, binary_masks, i, used, out) ==
    IF i > Len(binary_masks) THEN out
    ELSE LET st == MergeWhile(d, binary_masks,
                      [current_merged |-> binary_masks[i],
                       current_area |-> Cardinality(binary_masks[i]),
                       used |-> [used EXCEPT ![i] = TRUE],
                       changed |-> TRUE])
         IN MergeFromForgettingUsed(d, binary_masks, i + 1, used,
                                    Append(out, AsFloat32(st.current_merged)))

\* the for loop over i (lines 120-154)
RECURSIVE MergeFrom(_, _, _, _, _)
MergeFrom(d, binary_masks, i, used, out) ==
    IF i > Len(binary_masks) THEN out
    ELSE IF used[i] THEN MergeFrom(d, binary_masks, i + 1, used, out)
    ELSE LET st == MergeWhile(d, binary_masks,
                      [current_merged |-> binary_masks[i],
                       current_area |-> Cardinality(binary_masks[i]),
                       used |-> [used EXCEPT ![i] = TRUE],
                       changed |-> TRUE])
         IN MergeFrom(d, binary_masks, i + 1, st.used,
                      Append(out, AsFloat32(st.current_merged)))

_merge_masks(d, masks) ==
    IF ~d.merge_overlapping \/ Len(masks) = 0 THEN masks
    ELSE LET binary_masks == [i \in 1..Len(masks) |-> Binarize(masks[i])]
         IN MergeFrom(d, binary_masks, 1, [i \in 1..Len(masks) |-> FALSE], <<>>)

\* foreground pixel sets of the raw masks the segmentation may return
MaskShapes == {{}, {1}, {1, 2}, {3, 4}, {1, 3, 4}, {2, 3, 4}, {1, 2, 3}, {1, 2, 3, 4}}

\* the values a raw mask gives to background and foreground pixels
MaskLevels == {<<0, 10>>, <<5, 6>>}

RawMask(shape, levels) == [p \in Pixels |-> IF p \in shape THEN levels[2] ELSE levels[1]]

InitMerge ==
    /\ \E m \in BOOLEAN : detector = [merge_overlapping |-> m, overlap_threshold |-> 25]
    /\ \E n \in 0..MaxMasks : \E shapes \in [1..n -> MaskShapes] : \E levels \in MaskLevels :
           masks_list = [i \in 1..n |-> RawMask(shapes[i], levels)]
    /\ merged = <<>>
    /\ remerged = <<>>
    /\ pc = "masks"
    /\ EarlierIdle
    /\ DecisionIdle
    /\ PipelineIdle
    /\ DrawIdle
    /\ ShapeIdle
    /\ MirrorIdle
    /\ OrderIdle
    /\ RescoreIdle
    /\ VerifyIdle

\* masks = self._merge_masks(list(masks)) (line 184)
merge_masks ==
    /\ pc = "masks"
    /\ merged' = _merge_masks(detector, masks_list)
    /\ pc' = "merged"
    /\ UNCHANGED <<detector, masks_list, remerged, earlierVars, decisionVars, pipelineVars, drawVars, shapeVars, mirrorVars, orderVars, rescoreVars, verifyVars>>

\* _merge_masks applied to the set it returned
merge_masks_again ==
    /\ pc = "merged"
    /\ remerged' = _merge_masks(detector, merged)
    /\ pc' = "remerged"
    /\ UNCHANGED <<detector, masks_list, merged, earlierVars, decisionVars, pipelineVars, drawVars, shapeVars, mirrorVars, orderVars, rescoreVars, verifyVars>>

NextMerge == merge_masks \/ merge_masks_again

SpecMerge == InitMerge /\ [][NextMerge]_vars

\* the merge condition between two masks of the result
MergeCondition(m1, m2) ==
    ShouldMerge(detector, Binarize(m1), Cardinality(Binarize(m1)), Binarize(m2))

\* C11: with merging enabled no two masks of the result satisfy the merge
\* condition, and _merge_masks applied to its result returns it unchanged.
C11_MergeIdempotent ==
    (pc = "remerged" /\ detector.merge_overlapping) =>
        /\ \A i \in 1..Len(merged) : \A j \in 1..Len(merged) :
              i # j => ~MergeCondition(merged[i], merged[j])
        /\ remerged = merged

(***************************************************************************)
(* PureGeometricClassifier: the rule-based decision                        *)
(*                                                                         *)
(* A score in [0, 1] is held in hundredths (0..100); a confidence is an    *)
(* exact fraction.                                                         *)
(***************************************************************************)
\* __init__ with its default thresholds
PureGeometricClassifier ==
    [outline_sym_threshold |-> 70, reflection_sym_threshold |-> 65,
     spot_sym_threshold |-> 60, aspect_ratio_threshold |-> 58]

\* 1.0 - x
OneMinus(x) == Frac(x.den - x.num, x.den)

MakeDecisionThreeWeak(self, outline_sym, reflection_sym, has_spot, spot_sym, aspect_ratio) ==
    LET mean == Frac(outline_sym + reflection_sym + aspect_ratio, 300)
        weak_count == (IF outline_sym < 60 THEN 1 ELSE 0)
                      + (IF reflection_sym < 55 THEN 1 ELSE 0)
                      + (IF aspect_ratio < 52 THEN 1 ELSE 0)
        primary_score == 5 * outline_sym + 7 * reflection_sym + 8 * aspect_ratio
        final_score ==
            IF Abs(primary_score - 1200) < 100
            THEN IF has_spot /\ spot_sym >= self.spot_sym_threshold
                 THEN Frac(7 * primary_score + 60 * spot_sym, 20000)
                 ELSE Frac(primary_score, 2000)
            ELSE Frac(primary_score, 2000)
    IN IF /\ outline_sym >= self.outline_sym_threshold
          /\ reflection_sym >= self.reflection_sym_threshold
          /\ aspect_ratio >= self.aspect_ratio_threshold
       THEN [orientation |-> "table", confidence |-> mean]
       ELSE IF weak_count >= 3
       THEN [orientation |-> "tilted", confidence |-> OneMinus(mean)]
       ELSE IF RatLeq(Frac(60, 100), final_score)
       THEN [orientation |-> "table", confidence |-> final_score]
       ELSE [orientation |-> "tilted", confidence |-> OneMinus(final_score)]

MakeDecisionAlwaysSpot(self, outline_sym, reflection_sym, has_spot, spot_sym, aspect_ratio) ==
    LET mean == Frac(outline_sym + reflection_sym + aspect_ratio, 300)
        weak_count == (IF outline_sym < 60 THEN 1 ELSE 0)
                      + (IF reflection_sym < 55 THEN 1 ELSE 0)
                      + (IF aspect_ratio < 52 THEN 1 ELSE 0)
        primary_score == 5 * outline_sym + 7 * reflection_sym + 8 * aspect_ratio
        final_score ==
            IF has_spot /\ spot_sym >= self.spot_sym_threshold
            THEN Frac(7 * primary_score + 60 * spot_sym, 20000)
            ELSE Frac(primary_score, 2000)
    IN IF /\ outline_sym >= self.outline_sym_threshold
          /\ reflection_sym >= self.reflection_sym_threshold
          /\ aspect_ratio >= self.aspect_ratio_threshold
       THEN [orientation |-> "table", confidence |-> mean]
       ELSE IF weak_count >= 2
       THEN [orientation |-> "tilted", confidence |-> OneMinus(mean)]
       ELSE IF RatLeq(Frac(60, 100), final_score)
       THEN [orientation |-> "table", confidence |-> final_score]
       ELSE [orientation |-> "tilted", confidence |-> OneMinus(final_score)]

\* any large spot is blended in, whatever its symmetry
MakeDecisionAnySpotBlends(self, outline_sym, reflection_sym, has_spot, spot_sym, aspect_ratio) ==
    LET mean == Frac(outline_sym + reflection_sym + aspect_ratio, 300)
        weak_count == (IF outline_sym < 60 THEN 1 ELSE 0)
                      + (IF reflection_sym < 55 THEN 1 ELSE 0)
                      + (IF aspect_ratio < 52 THEN 1 ELSE 0)
        primary_score == 5 * outline_sym + 7 * reflection_sym + 8 * aspect_ratio
        final_score ==
            IF Abs(primary_score - 1200) < 100
            THEN IF has_spot
                 THEN Frac(7 * primary_score + 60 * spot_sym, 20000)
                 ELSE Frac(primary_score, 2000)
            ELSE Frac(primary_score, 2000)
    IN IF /\ outline_sym >= self.outline_sym_threshold
          /\ reflection_sym >= self.reflection_sym_threshold
          /\ aspect_ratio >= self.aspect_ratio_threshold
       THEN [orientation |-> "table", confidence |-> mean]
       ELSE IF weak_count >= 2
       THEN [orientation |-> "tilted", confidence |-> OneMinus(mean)]
       ELSE IF RatLeq(Frac(60, 100), final_score)
       THEN [orientation |-> "table", confidence |-> final_score]
       ELSE [orientation |-> "tilted", confidence |-> OneMinus(final_score)]

MakeDecisionSumForMean(self, outline_sym, reflection_sym, has_spot, spot_sym, aspect_ratio) ==
    LET mean == Frac(outline_sym + reflection_sym + aspect_ratio, 100)
        weak_count == (IF outline_sym < 60 THEN 1 ELSE 0)
                      + (IF reflection_sym < 55 THEN 1 ELSE 0)
                      + (IF aspect_ratio < 52 THEN 1 ELSE 0)
        primary_score == 5 * outline_sym + 7 * reflection_sym + 8 * aspect_ratio
        final_score ==
            IF Abs(primary_score - 1200) < 100
            THEN IF has_spot /\ spot_sym >= self.spot_sym_threshold
                 THEN Frac(7 * primary_score + 60 * spot_sym, 20000)
                 ELSE Frac(primary_score, 2000)
            ELSE Frac(primary_score, 2000)
    IN IF /\ outline_sym >= self.outline_sym_threshold
          /\ reflection_sym >= self.reflection_sym_threshold
          /\ aspect_ratio >= self.aspect_ratio_threshold
       THEN [orientation |-> "table", confidence |-> mean]
       ELSE IF weak_count >= 2
       THEN [orientation |-> "tilted", confidence |-> OneMinus(mean)]
       ELSE IF RatLeq(Frac(60, 100), final_score)
       THEN [orientation |-> "table", confidence |-> final_score]
       ELSE [orientation |-> "tilted", confidence |-> OneMinus(final_score)]

\* lines 497-549; primary_score is in units of 1/2000 (0.25 = 5/20, 0.35 = 7/20,
\* 0.40 = 8/20 of a score in hundredths)
_make_decision(self, outline_sym, reflection_sym, has_spot, spot_sym, aspect_ratio) ==
    LET mean == Frac(outline_sym + reflection_sym + aspect_ratio, 300)
        weak_count == (IF outline_sym < 60 THEN 1 ELSE 0)
                      + (IF reflection_sym < 55 THEN 1 ELSE 0)
                      + (IF aspect_ratio < 52 THEN 1 ELSE 0)
        primary_score == 5 * outline_sym + 7 * reflection_sym + 8 * aspect_ratio
        final_score ==
            IF Abs(primary_score - 1200) < 100
            THEN IF has_spot /\ spot_sym >= self.spot_sym_threshold
                 THEN Frac(7 * primary_score + 60 * spot_sym, 20000)
                 ELSE Frac(primary_score, 2000)
            ELSE Frac(primary_score, 2000)
    IN IF /\ outline_sym >= self.outline_sym_threshold
          /\ reflection_sym >= self.reflection_sym_threshold
          /\ aspect_ratio >= self.aspect_ratio_threshold
       THEN [orientation |-> "table", confidence |-> mean]
       ELSE IF weak_count >= 2
       THEN [orientation |-> "tilted", confidence |-> OneMinus(mean)]
       ELSE IF RatLeq(Frac(60, 100), final_score)
       THEN [orientation |-> "table", confidence |-> final_score]
       ELSE [orientation |-> "tilted", confidence |-> OneMinus(final_score)]

\* what the measurements of analyze come to for a region r whose picture
\* would measure m: the early returns of the four metrics
Metrics(r, m) ==
    LET no_pixels == r.mask = "empty"
        spot == ~no_pixels /\ m.has_spot
    IN [outline_sym |-> IF r.contour_len < 5 \/ no_pixels THEN 0 ELSE m.outline_sym,
        reflection_sym |-> IF no_pixels THEN 0 ELSE m.reflection_sym,
        has_spot |-> spot,
        spot_sym |-> IF spot THEN m.spot_sym ELSE 0,
        aspect_ratio |-> IF r.contour_len < 5 THEN 0 ELSE m.aspect_ratio]

\* analyze (lines 94-145): roi_image.shape and gray[mask > 0] raise on None
analyze(self, r, m) ==
    IF r.roi_image = "missing" \/ r.mask = "missing"
    THEN [raised |-> TRUE, orientation |-> "none", confidence |-> NoGrade]
    ELSE LET s == Metrics(r, m)
             d == _make_decision(self, s.outline_sym, s.reflection_sym,
                                 s.has_spot, s.spot_sym, s.aspect_ratio)
         IN [raised |-> FALSE, orientation |-> d.orientation,
             confidence |-> d.confidence]

\* classify_orientation (lines 71-92)
classify_orientation(self, r, m) ==
    IF r.roi_image = "missing" \/ r.mask = "missing" \/ r.contour_len < 5
    THEN [raised |-> FALSE, orientation |-> "tilted", confidence |-> Frac(0, 1)]
    ELSE analyze(self, r, m)

\* scores around the thresholds of the rules
OutlineLevels == {0, 59, 60, 69, 70, 100}
ReflectionLevels == {0, 54, 55, 64, 65, 100}
AspectLevels == {0, 51, 52, 57, 58, 100}
SpotLevels == {0, 59, 60, 100}

Regions == [roi_image : {"missing", "present"},
            mask : {"missing", "empty", "present"},
            contour_len : {4, 5}]

InitDecision ==
    /\ \E r \in Regions, o \in OutlineLevels, rf \in ReflectionLevels,
          a \in AspectLevels, hs \in BOOLEAN, ss \in SpotLevels :
           decision = [NoDecision EXCEPT !.region = r, !.outline_sym = o,
                          !.reflection_sym = rf, !.has_spot = hs,
                          !.spot_sym = ss, !.aspect_ratio = a]
    /\ pc = "decide"
    /\ EarlierIdle
    /\ MergeIdle
    /\ PipelineIdle
    /\ DrawIdle
    /\ ShapeIdle
    /\ MirrorIdle
    /\ OrderIdle
    /\ RescoreIdle
    /\ VerifyIdle

\* _make_decision on the measured scores
make_decision ==
    /\ pc = "decide"
    /\ LET d == _make_decision(PureGeometricClassifier, decision.outline_sym,
                    decision.reflection_sym, decision.has_spot,
                    decision.spot_sym, decision.aspect_ratio)
       IN decision' = [decision EXCEPT !.via = "_make_decision",
                          !.orientation = d.orientation,
                          !.confidence = d.confidence]
    /\ pc' = "decided"
    /\ UNCHANGED <<earlierVars, mergeVars, pipelineVars, drawVars, shapeVars, mirrorVars, orderVars, rescoreVars, verifyVars>>

\* what the caller of one entry point gets back
Decided(via, d) ==
    [decision EXCEPT !.via = via, !.raised = d.raised,
                     !.orientation = d.orientation, !.confidence = d.confidence]

classify_orientation_call ==
    /\ pc = "decide"
    /\ decision' = Decided("classify_orientation",
                      classify_orientation(PureGeometricClassifier, decision.region, decision))
    /\ pc' = "decided"
    /\ UNCHANGED <<earlierVars, mergeVars, pipelineVars, drawVars, shapeVars, mirrorVars, orderVars, rescoreVars, verifyVars>>

analyze_call ==
    /\ pc = "decide"
    /\ decision' = Decided("analyze",
                      analyze(PureGeometricClassifier, decision.region, decision))
    /\ pc' = "decided"
    /\ UNCHANGED <<earlierVars, mergeVars, pipelineVars, drawVars, shapeVars, mirrorVars, orderVars, rescoreVars, verifyVars>>

NextDecision == make_decision \/ classify_orientation_call \/ analyze_call

SpecDecision == InitDecision /\ [][NextDecision]_vars

\* the decision rules have run on the measured scores
RulesRan == pc = "decided" /\ decision.via = "_make_decision"

\* the conditions of the two strong rules, on scores in hundredths
StrongTable ==
    decision.outline_sym >= 70 /\ decision.reflection_sym >= 65
        /\ decision.aspect_ratio >= 58
StrongTilted ==
    \/ decision.outline_sym < 60 /\ decision.reflection_sym < 55
    \/ decision.outline_sym < 60 /\ decision.aspect_ratio < 52
    \/ decision.reflection_sym < 55 /\ decision.aspect_ratio < 52

MeanOfThree ==
    Frac(decision.outline_sym + decision.reflection_sym + decision.aspect_ratio, 300)

Returned(orientation, confidence) ==
    /\ decision.orientation = orientation
    /\ decision.confidence.kind = "num"
    /\ RatEq(decision.confidence, confidence)

\* C12: the strong table rule returns table with the mean of the three
\* scores; otherwise two weak scores return tilted with 1 - mean; the two
\* rules never apply to the same scores.
C12_StrongRules ==
    RulesRan =>
        /\ StrongTable => Returned("table", MeanOfThree)
        /\ (~StrongTable /\ StrongTilted) => Returned("tilted", OneMinus(MeanOfThree))
        /\ ~(StrongTable /\ StrongTilted)

C12_Witness ==
    /\ RulesRan /\ ~StrongTable /\ StrongTilted
    /\ decision.outline_sym >= 70 /\ decision.reflection_sym < 55
    /\ decision.orientation = "tilted"

\* 20 times the weighted score 0.25*outline + 0.35*reflection + 0.40*aspect
\* in hundredths, and the final score
WeightedScore ==
    5 * decision.outline_sym + 7 * decision.reflection_sym
        + 8 * decision.aspect_ratio
SpotCounts ==
    /\ WeightedScore > 20 * 55 /\ WeightedScore < 20 * 65
    /\ decision.has_spot /\ decision.spot_sym >= 60
FinalScore ==
    IF SpotCounts
    THEN Frac(7 * WeightedScore + 3 * 20 * decision.spot_sym, 10 * 20 * 100)
    ELSE Frac(WeightedScore, 20 * 100)

\* C13: when neither strong rule applies the weighted score, blended with
\* the spot symmetry only inside the band around 0.60, decides: table with
\* confidence final when final >= 0.60, tilted with 1 - final otherwise.
C13_WeightedFallback ==
    (RulesRan /\ ~StrongTable /\ ~StrongTilted) =>
        IF RatLeq(Frac(60, 100), FinalScore)
        THEN Returned("table", FinalScore)
        ELSE Returned("tilted", OneMinus(FinalScore))

\* the spot lifts a score below 0.60 to a table decision
C13_Witness ==
    /\ RulesRan /\ ~StrongTable /\ ~StrongTilted /\ SpotCounts
    /\ WeightedScore < 20 * 60
    /\ decision.orientation = "table"

\* C14: for scores in [0, 1] the decision is table or tilted and its
\* confidence lies in [0, 1], whichever rule produced it.
C14_LabelAndConfidenceRange ==
    RulesRan =>
        /\ decision.orientation \in {"table", "tilted"}
        /\ decision.confidence.kind = "num"
        /\ RatLeq(Frac(0, 1), decision.confidence)
        /\ RatLeq(decision.confidence, Frac(1, 1))

\* a strong table decision with all three scores at 1
C14_Witness ==
    /\ RulesRan /\ StrongTable
    /\ decision.outline_sym = 100 /\ decision.reflection_sym = 100
    /\ decision.aspect_ratio = 100
    /\ RatEq(decision.confidence, Frac(1, 1))

\* a region every geometric score of which degrades to 0
Malformed ==
    \/ decision.region.roi_image = "missing"
    \/ decision.region.mask = "missing"
    \/ decision.region.contour_len < 5 /\ decision.region.mask = "empty"

\* C15: a malformed region resolves to tilted with confidence 0 without
\* raising, through classify_orientation and through analyze alike.
C15_MalformedTiltedZero ==
    (pc = "decided" /\ decision.via \in {"classify_orientation", "analyze"}
        /\ Malformed) =>
        /\ ~decision.raised
        /\ Returned("tilted", Frac(0, 1))

(***************************************************************************)
(* DiamondClassifier.classify_image and process_batch                      *)
(*                                                                         *)
(* An image file is known by its name (its position in the directory       *)
(* listing); a region's roi_image is known by the image it was cut from.   *)
(* The overlay visualize_pickup_order draws is the pair of the image and   *)
(* the graded regions drawn on it.                                         *)
(***************************************************************************)
MaxImages == 2      \* image files of one batch

RECURSIVE Gcd(_, _)
Gcd(a, b) == IF b = 0 THEN a ELSE Gcd(b, a % b)

\* the fraction n/d (d > 0) in lowest terms
Reduced(n, d) == LET g == Gcd(Abs(n), d) IN Frac(n \div g, d \div g)

\* float addition and division by a count
FloatAdd(a, b) ==
    IF a.kind = "num" /\ b.kind = "num"
    THEN Reduced(a.num * b.den + b.num * a.den, a.den * b.den)
    ELSE NaN
FloatDivInt(a, n) == IF a.kind = "num" THEN Reduced(a.num, a.den * n) ELSE a

\* sum(gd.grade for gd in gds)
RECURSIVE SumOfGrades(_)
SumOfGrades(gds) ==
    IF Len(gds) = 0 THEN Frac(0, 1)
    ELSE FloatAdd(SumOfGrades(SubSeq(gds, 1, Len(gds) - 1)), gds[Len(gds)].grade)

\* tilted regions get no graded record
GradedDiamondsWithoutTilted(g, rois) ==
    LET all == [i \in 1..Len(rois) |->
                  LET r == GradeRoi(g, rois[i], rois)
                  IN [roi |-> rois[i], grade |-> r.grade,
                      nearest_distance |-> r.nearest_distance, radius |-> r.radius]]
        HasGrade(gd) == gd.grade.kind # "None"
    IN SelectSeq(all, HasGrade)

\* grade_diamonds: each GradedDiamond holds its region
GradedDiamonds(g, rois) ==
    [i \in 1..Len(rois) |->
        LET r == GradeRoi(g, rois[i], rois)
        IN [roi |-> rois[i], grade |-> r.grade,
            nearest_distance |-> r.nearest_distance, radius |-> r.radius]]

\* core.py lines 214-227
get_visualization(c) ==
    IF ~c.has_last THEN None
    ELSE Some(visualize_pickup_order(c._last_image, c._last_graded_diamonds))

\* core.py lines 229-246
get_roi_image(c, roi_id) ==
    IF ~c.has_last THEN None
    ELSE LET gds == c._last_graded_diamonds
             hits == {i \in 1..Len(gds) : gds[i].roi.id = roi_id}
         IN IF hits = {} THEN None
            ELSE Some(gds[CHOOSE i \in hits : \A j \in hits : i <= j].roi.roi_image)

\* the early return is never taken
NoRegionsNever(rois) == FALSE

\* len(diamond_rois) == 0
NoRegions(rois) == Len(rois) = 0

\* the loop over the regions is left after the first region
ClassifyLoopDoneAfterFirst(c) == c.k > 1

\* the for loop over diamond_rois has run through
ClassifyLoopDone(c) == c.k > Len(c.diamond_rois)

\* what the detector finds in the pictures of the catalogue
FoundA == [center |-> <<100, 100>>, area |-> 25, detected_type |-> "other"]
FoundB == [center |-> <<115, 100>>, area |-> 25, detected_type |-> "round"]
FoundC == [center |-> <<160, 100>>, area |-> 400, detected_type |-> "other"]
FoundLists == {<<>>, <<FoundA>>, <<FoundA, FoundB>>, <<FoundA, FoundC>>}

\* files of the input directory: one cv2.imread cannot read, one on which
\* the segmentation raises, and readable pictures
ImageCatalogue ==
    {[readable |-> FALSE, fails |-> FALSE, width |-> 0, found |-> <<>>]}
    \cup {[readable |-> TRUE, fails |-> TRUE, width |-> w, found |-> <<>>] :
             w \in {500}}
    \cup {[readable |-> TRUE, fails |-> FALSE, width |-> w, found |-> f] :
             w \in ImageWidths, f \in FoundLists}

\* pictures have the 4:3 format of the 2592 x 1944 reference image
ImageHeight(w) == (3 * w) \div 4

\* the file at position i of the listing
ImageFile(i, picture) ==
    [name |-> i, readable |-> picture.readable, fails |-> picture.fails,
     height |-> ImageHeight(picture.width), width |-> picture.width,
     found |-> picture.found]

Max(a, b) == IF a >= b THEN a ELSE b

\* SAMDiamondDetector(min_area, max_area, padding, merge_overlapping)
SAMDiamondDetector(min_area, max_area, padding, merge_overlapping) ==
    [min_area |-> min_area, max_area |-> max_area, padding |-> padding,
     merge_overlapping |-> merge_overlapping]

\* core.py lines 75-90: int(200 * h * w / (1944 * 2592)) and
\* int(20000 * h * w / (1944 * 2592)), the fractions 200 / 5038848 and
\* 20000 / 5038848 reduced to 25 / 629856 and 625 / 157464
_initialize_detector(h, w) ==
    LET image_pixels == h * w
        min_area == Max(30, (25 * image_pixels) \div 629856)
        max_area == Max(1000, (625 * image_pixels) \div 157464)
    IN SAMDiamondDetector(min_area, max_area, 10, FALSE)

\* core.py lines 92-97
_initialize_grader(image_width) == PickupGrader(TRUE, Some(image_width))

\* detector.detect(image): ids 0..n-1, orientation 'unknown'
DetectedRois(image) ==
    [i \in 1..Len(image.found) |->
        [id |-> i - 1, center |-> image.found[i].center,
         area |-> image.found[i].area,
         detected_type |-> image.found[i].detected_type,
         orientation |-> "unknown",
         roi_image |-> [image |-> image.name, roi |-> i - 1]]]

InitPipeline ==
    /\ \E n \in 1..MaxImages : \E pictures \in [1..n -> ImageCatalogue] :
       \E model_file_exists \in BOOLEAN :
           batch = [NewBatch([i \in 1..n |-> ImageFile(i, pictures[i])])
                       EXCEPT !.model_file_exists = model_file_exists]
    /\ classifier = NewClassifier
    /\ call = NoCall
    /\ pc = "process_batch"
    /\ EarlierIdle
    /\ MergeIdle
    /\ DecisionIdle
    /\ DrawIdle
    /\ ShapeIdle
    /\ MirrorIdle
    /\ OrderIdle
    /\ RescoreIdle
    /\ VerifyIdle

\* process_batch lines 62-70: without the model file nothing is processed
start_batch ==
    /\ pc = "process_batch"
    /\ pc' = IF batch.model_file_exists THEN "next_image" ELSE "batch_returned"
    /\ UNCHANGED <<classifier, batch, call, earlierVars, mergeVars, decisionVars, drawVars, shapeVars, mirrorVars, orderVars, rescoreVars, verifyVars>>

\* process_batch lines 89-99 and classify_image lines 109-115: read the
\* next file; an unreadable one is skipped, a readable one enters
\* classify_image, which builds detector and grader if there are none
next_image ==
    /\ pc = "next_image"
    /\ batch.img_idx <= Len(batch.image_files)
    /\ LET image == batch.image_files[batch.img_idx] IN
       IF ~image.readable
       THEN /\ batch' = [batch EXCEPT !.img_idx = @ + 1]
            /\ UNCHANGED <<pc, classifier, call>>
       ELSE /\ call' = [NoCall EXCEPT !.image = image.name,
                                       !.height = image.height,
                                       !.width = image.width]
            /\ classifier' =
                 [classifier EXCEPT
                    !.detector = IF @.some THEN @
                                 ELSE Some(_initialize_detector(image.height,
                                                                image.width)),
                    !.grader = IF @.some THEN @
                               ELSE Some(_initialize_grader(image.width))]
            /\ pc' = "detect"
            /\ UNCHANGED batch
    /\ UNCHANGED <<earlierVars, mergeVars, decisionVars, drawVars, shapeVars, mirrorVars, orderVars, rescoreVars, verifyVars>>

\* classify_image lines 117-131: detect, and return at once without regions;
\* an exception of the segmentation leaves classify_image and process_batch
detect ==
    /\ pc = "detect"
    /\ LET image == batch.image_files[batch.img_idx]
           rois == DetectedRois(image)
       IN IF image.fails
          THEN /\ pc' = "batch_raised"
               /\ call' = [call EXCEPT !.invoked = @ \cup {"detector"}]
          ELSE IF NoRegions(rois)
          THEN /\ pc' = "returned"
               /\ call' = [call EXCEPT !.invoked = @ \cup {"detector"},
                                       !.diamond_rois = rois,
                                       !.result = EmptyResult(image.name)]
          ELSE /\ pc' = "classify"
               /\ call' = [call EXCEPT !.invoked = @ \cup {"detector"},
                                       !.diamond_rois = rois]
    /\ UNCHANGED <<classifier, batch, earlierVars, mergeVars, decisionVars, drawVars, shapeVars, mirrorVars, orderVars, rescoreVars, verifyVars>>

\* classify_image lines 138-191: one iteration of the loop; the model's
\* prediction is either label
classify_region ==
    /\ pc = "classify"
    /\ ~ClassifyLoopDone(call)
    /\ \E orientation \in {"table", "tilted"} :
         LET roi == call.diamond_rois[call.k] IN
         call' = [call EXCEPT
                    !.invoked = @ \cup {"model"},
                    !.diamond_rois[call.k].orientation = orientation,
                    !.table_count = IF orientation = "table" THEN @ + 1 ELSE @,
                    !.tilted_count = IF orientation = "table" THEN @ ELSE @ + 1,
                    !.classifications =
                        Append(@, [roi_id |-> roi.id,
                                   diamond_type |-> roi.detected_type,
                                   orientation |-> orientation,
                                   center |-> roi.center, area |-> roi.area]),
                    !.k = @ + 1]
    /\ UNCHANGED <<pc, classifier, batch, earlierVars, mergeVars, decisionVars, drawVars, shapeVars, mirrorVars, orderVars, rescoreVars, verifyVars>>

\* classify_image lines 193-212: grade, keep the graded regions and the
\* image for get_visualization, return the result
grade_and_return ==
    /\ pc = "classify"
    /\ ClassifyLoopDone(call)
    /\ LET graded_diamonds_ == GradedDiamonds(classifier.grader.val, call.diamond_rois)
           pickable == SelectSeq(graded_diamonds_, IsPickable)
           invalid == SelectSeq(graded_diamonds_, IsInvalid)
           avg_grade == IF Len(pickable) > 0
                        THEN FloatDivInt(SumOfGrades(pickable), Len(pickable))
                        ELSE Frac(0, 1)
       IN /\ classifier' = [classifier EXCEPT
                               !.has_last = TRUE,
                               !._last_graded_diamonds = graded_diamonds_,
                               !._last_image = call.image]
          /\ call' = [call EXCEPT
                        !.invoked = @ \cup {"grader"},
                        !.graded_diamonds = graded_diamonds_,
                        !.result =
                            [image_name |-> call.image,
                             total_diamonds |-> Len(call.diamond_rois),
                             table_count |-> call.table_count,
                             tilted_count |-> call.tilted_count,
                             pickable_count |-> Len(pickable),
                             invalid_count |-> Len(invalid),
                             average_grade |-> avg_grade,
                             classifications |-> call.classifications]]
    /\ pc' = "returned"
    /\ UNCHANGED <<batch, earlierVars, mergeVars, decisionVars, drawVars, shapeVars, mirrorVars, orderVars, rescoreVars, verifyVars>>

\* process_batch lines 101-124: write the JSON, write the overlay that
\* get_visualization returns under this image's name, add up
save_outputs ==
    /\ pc = "returned"
    /\ LET image == batch.image_files[batch.img_idx]
           result == call.result
           vis == get_visualization(classifier)
       IN batch' = [batch EXCEPT
            !.json_files = Append(@, [file |-> image.name, result |-> result]),
            !.vis_files = IF vis.some
                          THEN Append(@, [file |-> image.name, vis |-> vis.val])
                          ELSE @,
            !.total_images = @ + 1,
            !.total_diamonds = @ + result.total_diamonds,
            !.total_table = @ + result.table_count,
            !.total_tilted = @ + result.tilted_count,
            !.batch_results = Append(@, [image |-> image.name,
                                         diamonds |-> result.total_diamonds,
                                         table |-> result.table_count,
                                         tilted |-> result.tilted_count,
                                         pickable |-> result.pickable_count]),
            !.img_idx = @ + 1]
    /\ pc' = "next_image"
    /\ UNCHANGED <<classifier, call, earlierVars, mergeVars, decisionVars, drawVars, shapeVars, mirrorVars, orderVars, rescoreVars, verifyVars>>

\* process_batch lines 142-153, after the loop
write_summary ==
    /\ pc = "next_image"
    /\ batch.img_idx > Len(batch.image_files)
    /\ batch' = [batch EXCEPT !.summary =
                    Some([total_images |-> batch.total_images,
                          total_diamonds |-> batch.total_diamonds,
                          total_table |-> batch.total_table,
                          total_tilted |-> batch.total_tilted,
                          results |-> batch.batch_results])]
    /\ pc' = "batch_done"
    /\ UNCHANGED <<classifier, call, earlierVars, mergeVars, decisionVars, drawVars, shapeVars, mirrorVars, orderVars, rescoreVars, verifyVars>>

NextPipeline ==
    \/ start_batch \/ next_image \/ detect \/ classify_region
    \/ grade_and_return \/ save_outputs \/ write_summary

SpecPipeline == InitPipeline /\ [][NextPipeline]_vars

\* classify_image has returned its result for the image call.image
ImageClassified == pc = "returned"

\* C16: without regions classify_image returns a result with every count 0,
\* average grade 0 and an empty list, and neither the model nor the grader
\* has been called.
C16_NoRegionsZeroResult ==
    (ImageClassified /\ Len(call.diamond_rois) = 0) =>
        /\ call.result.image_name = call.image
        /\ call.result.total_diamonds = 0
        /\ call.result.table_count = 0
        /\ call.result.tilted_count = 0
        /\ call.result.pickable_count = 0
        /\ call.result.invalid_count = 0
        /\ call.result.average_grade.kind = "num"
        /\ call.result.average_grade.num = 0
        /\ call.result.classifications = <<>>
        /\ call.invoked \cap {"model", "grader"} = {}

\* the second image of a batch has no regions
C16_Witness ==
    /\ ImageClassified /\ Len(call.diamond_rois) = 0
    /\ batch.img_idx = 2 /\ Len(batch.json_files) = 1

\* C17: when classify_image returns, the classifications and the graded
\* regions are as many as the detected regions and in their order, record i
\* of both carries the id of region i, and the ids differ pairwise.
C17_OneRecordPerRegion ==
    ImageClassified =>
        LET rois == call.diamond_rois
            classifications == call.result.classifications
            graded == call.graded_diamonds
        IN /\ Len(classifications) = Len(rois)
           /\ Len(graded) = Len(rois)
           /\ call.result.total_diamonds = Len(rois)
           /\ \A i \in 1..Len(rois) :
                 /\ classifications[i].roi_id = rois[i].id
                 /\ graded[i].roi.id = rois[i].id
           /\ \A i \in 1..Len(rois) : \A j \in 1..Len(rois) :
                 i # j => rois[i].id # rois[j].id

\* two regions, one labelled tilted and one table
C17_Witness ==
    /\ ImageClassified /\ Len(call.diamond_rois) = 2
    /\ call.diamond_rois[1].orientation = "tilted"
    /\ call.diamond_rois[2].orientation = "table"
    /\ Len(call.graded_diamonds) = 2

\* every region of the call has its orientation label
AllLabelled ==
    \A j \in 1..Len(call.diamond_rois) :
        call.diamond_rois[j].orientation \in {"table", "tilted"}

\* C18: the step that calls grade_diamonds is taken only when every region
\* of the image has its label, and no graded record holds a region whose
\* orientation is 'unknown'.
C18_GradingIsBarrier ==
    [][("grader" \in call'.invoked /\ "grader" \notin call.invoked) =>
          /\ AllLabelled
          /\ \A i \in 1..Len(call'.graded_diamonds) :
                call'.graded_diamonds[i].roi.orientation # "unknown"]_vars

\* two regions graded after both have been labelled
C18_Witness ==
    /\ "grader" \in call.invoked /\ Len(call.graded_diamonds) = 2
    /\ call.k = 3 /\ AllLabelled

\* process_batch has ended
BatchEnded == pc \in {"batch_done", "batch_raised", "batch_returned"}

\* C19: with the model present, whatever happens to one image, the batch
\* ends with its summary written and a result file for every image that can
\* be read and processed.
C19_FailureAbortsOneImage ==
    (BatchEnded /\ batch.model_file_exists) =>
        /\ batch.summary.some
        /\ \A i \in 1..Len(batch.image_files) :
              (batch.image_files[i].readable /\ ~batch.image_files[i].fails) =>
                  \E j \in 1..Len(batch.json_files) :
                      batch.json_files[j].file = batch.image_files[i].name

\* C20: once classify_image has returned for an image, get_visualization and
\* get_roi_image return nothing or data of that image.
C20_LastImageData ==
    ImageClassified =>
        /\ LET vis == get_visualization(classifier)
           IN vis.some => vis.val.image = call.image
        /\ \A i \in 1..Len(classifier._last_graded_diamonds) :
              LET roi_image == get_roi_image(classifier,
                                  classifier._last_graded_diamonds[i].roi.id)
              IN roi_image.some => roi_image.val.image = call.image

(***************************************************************************)
(* visualize_pickup_order                                                  *)
(***************************************************************************)
\* the colours in which the region at position i of graded_diamonds is drawn
ColoursOf(i) ==
    {vis_image.drawn[k].color :
        k \in {n \in 1..Len(vis_image.drawn) : vis_image.drawn[n].gd = i}}
TimesDrawn(i) ==
    Cardinality({n \in 1..Len(vis_image.drawn) : vis_image.drawn[n].gd = i})

\* C21: every graded region is drawn exactly once; it is green exactly when
\* its grade is a value >= 0, orange exactly when its grade is -1 and red
\* exactly when it has no grade.
C21_OneColourPerGrade ==
    vis_image.done =>
        \A i \in 1..Len(graded_diamonds) :
            LET grade == graded_diamonds[i].grade IN
            /\ TimesDrawn(i) = 1
            /\ (ColoursOf(i) = {Green}) <=>
                   (grade.kind # "None" /\ RatLeq(Zero, grade))
            /\ (ColoursOf(i) = {Orange}) <=>
                   (grade.kind # "None" /\ RatEq(grade, Invalid))
            /\ (ColoursOf(i) = {Red}) <=> (grade = NoGrade)

\* an image with a green, an orange and a red region
C21_Witness ==
    /\ vis_image.done
    /\ \E i \in 1..Len(graded_diamonds) : ColoursOf(i) = {Green}
    /\ \E i \in 1..Len(graded_diamonds) : ColoursOf(i) = {Orange}
    /\ \E i \in 1..Len(graded_diamonds) : ColoursOf(i) = {Red}

(***************************************************************************)
(* SAMDiamondDetector._is_valid_diamond_shape                              *)
(*                                                                         *)
(* A candidate is known by what OpenCV measures of it: the areas of the    *)
(* contour and of its convex hull, the number of labels of the mask        *)
(* (background included), the bounding box and the perimeter.              *)
(***************************************************************************)
\* the check for holes is missing
IsValidShapeIgnoringHoles(c) ==
    IF c.hull_area > 0 /\ 100 * c.contour_area < 70 * c.hull_area THEN FALSE
    ELSE IF c.hull_area <= 0 THEN FALSE
    ELSE IF c.w * c.h > 0 /\ 100 * c.contour_area < 50 * (c.w * c.h) THEN FALSE
    ELSE IF c.perimeter > 0
            /\ 100 * 4 * 355 * c.contour_area
                   < 30 * 113 * c.perimeter * c.perimeter THEN FALSE
    ELSE TRUE

\* lines 68-109; pi is taken as 355/113, which decides every comparison of
\* the circularity of these candidates as pi does
_is_valid_diamond_shape(c) ==
    IF c.hull_area > 0 /\ 100 * c.contour_area < 70 * c.hull_area THEN FALSE
    ELSE IF c.hull_area <= 0 THEN FALSE
    ELSE IF c.num_labels > 2 THEN FALSE
    ELSE IF c.w * c.h > 0 /\ 100 * c.contour_area < 50 * (c.w * c.h) THEN FALSE
    ELSE IF c.perimeter > 0
            /\ 100 * 4 * 355 * c.contour_area
                   < 30 * 113 * c.perimeter * c.perimeter THEN FALSE
    ELSE TRUE

\* measurements of candidates, at and next to the four limits
ContourAreas == {0, 5, 6, 7, 8, 10}
HullAreas == {0, 10}
LabelCounts == {1, 2, 3}
BoxSides == {<<0, 0>>, <<2, 7>>, <<4, 4>>, <<4, 7>>}
Perimeters == {0, 12, 17, 18, 30}

\* what a contour can measure: the contour lies in its hull, the hull in the
\* bounding box; a hull with area has a box and a perimeter, and only the
\* empty contour has an empty box
Measurable(c) ==
    /\ c.contour_area <= c.hull_area
    /\ c.hull_area <= c.w * c.h
    /\ c.hull_area > 0 => c.perimeter > 0
    /\ c.w * c.h = 0 => c.perimeter = 0

InitShape ==
    /\ \E a \in ContourAreas, ha \in HullAreas, n \in LabelCounts,
          box \in BoxSides, p \in Perimeters :
          /\ candidate = [NoShape EXCEPT !.contour_area = a, !.hull_area = ha,
                         !.num_labels = n, !.w = box[1], !.h = box[2],
                         !.perimeter = p]
          /\ Measurable(candidate)
    /\ pc = "candidate"
    /\ EarlierIdle
    /\ MergeIdle
    /\ DecisionIdle
    /\ PipelineIdle
    /\ DrawIdle
    /\ MirrorIdle
    /\ OrderIdle
    /\ RescoreIdle
    /\ VerifyIdle

\* detect line 208: if not self._is_valid_diamond_shape(contour, mask_uint8)
validate_shape ==
    /\ pc = "candidate"
    /\ candidate' = [candidate EXCEPT !.done = TRUE, !.valid = _is_valid_diamond_shape(candidate)]
    /\ pc' = "validated"
    /\ UNCHANGED <<earlierVars, mergeVars, decisionVars, pipelineVars, drawVars,
                   mirrorVars, orderVars, rescoreVars, verifyVars>>

NextShape == validate_shape

SpecShape == InitShape /\ [][NextShape]_vars

\* the four rejection conditions, and the degenerate candidates
LowSolidity == candidate.hull_area > 0 /\ 100 * candidate.contour_area < 70 * candidate.hull_area
SeveralComponents == candidate.num_labels - 1 > 1
LowExtent == candidate.w * candidate.h > 0 /\ 2 * candidate.contour_area < candidate.w * candidate.h
LowCircularity ==
    /\ candidate.perimeter > 0
    /\ 10 * 4 * 355 * candidate.contour_area < 3 * 113 * candidate.perimeter * candidate.perimeter
Degenerate == candidate.hull_area = 0 \/ candidate.w * candidate.h = 0 \/ candidate.perimeter = 0

Corrcoef(m) ==
    IF m.left_std_zero \/ m.right_std_zero THEN NaN ELSE Frac(m.correlation, 100)

\* np.clip(x, 0.0, 1.0): nan stays nan
Clip01(x) ==
    IF x.kind # "num" THEN x
    ELSE IF x.num < 0 THEN Frac(0, 1)
    ELSE IF x.num > x.den THEN Frac(1, 1)
    ELSE x

\* shape_based_symmetry.py lines 258-288:
\* 0.7 * (correlation + 1) / 2 + 0.3 * (1 - brightness_diff)
compute_mirror_symmetry(m) ==
    IF m.valid < 10 THEN Frac(0, 1)
    ELSE IF m.valid < 2 THEN Frac(0, 1)
    ELSE LET correlation == Corrcoef(m) IN
         IF correlation.kind # "num" THEN Clip01(NaN)
         ELSE Clip01(Frac(7 * (correlation.num + 100) + 6 * (100 - m.brightness_diff),
                          2000))

\* pure_geometric_classifier.py lines 208-294
_analyze_reflection_symmetry(m) ==
    IF m.num_spots = 0 THEN Frac(0, 1)
    ELSE IF m.m00 = 0 THEN Frac(0, 1)
    ELSE IF m.valid < 10 THEN Frac(0, 1)
    ELSE IF m.valid < 2 THEN Frac(0, 1)
    ELSE IF m.left_std_zero \/ m.right_std_zero
         THEN Clip01(Frac(100 - m.brightness_diff, 100))
    ELSE LET corr == Corrcoef(m)
             correlation == IF corr.kind = "nan"
                            THEN Frac(100 - 2 * m.brightness_diff, 100)
                            ELSE corr
         IN Clip01(Frac(correlation.num + 100, 200))

ValidCounts == {0, 9, 10, 40}
Correlations == {-100, -30, 0, 100}
BrightnessDiffs == {0, 25, 100}

InitMirror ==
    /\ \E n \in {0, 2}, m00 \in {0, 40}, v \in ValidCounts, lz \in BOOLEAN,
          rz \in BOOLEAN, c \in Correlations, bd \in BrightnessDiffs :
           mirror = [NoMirror EXCEPT !.num_spots = n, !.m00 = m00, !.valid = v,
                        !.left_std_zero = lz, !.right_std_zero = rz,
                        !.correlation = c, !.brightness_diff = bd]
    /\ pc = "halves"
    /\ EarlierIdle
    /\ MergeIdle
    /\ DecisionIdle
    /\ PipelineIdle
    /\ DrawIdle
    /\ ShapeIdle
    /\ OrderIdle
    /\ RescoreIdle
    /\ VerifyIdle

\* the outline primitive on the two halves
mirror_symmetry ==
    /\ pc = "halves"
    /\ mirror' = [mirror EXCEPT !.via = "compute_mirror_symmetry",
                                !.score = compute_mirror_symmetry(mirror)]
    /\ pc' = "measured"
    /\ UNCHANGED <<earlierVars, mergeVars, decisionVars, pipelineVars, drawVars,
                   shapeVars, orderVars, rescoreVars, verifyVars>>

\* the reflection measurement on the two halves
reflection_symmetry ==
    /\ pc = "halves"
    /\ mirror' = [mirror EXCEPT !.via = "_analyze_reflection_symmetry",
                                !.score = _analyze_reflection_symmetry(mirror)]
    /\ pc' = "measured"
    /\ UNCHANGED <<earlierVars, mergeVars, decisionVars, pipelineVars, drawVars,
                   shapeVars, orderVars, rescoreVars, verifyVars>>

NextMirror == mirror_symmetry \/ reflection_symmetry

SpecMirror == InitMirror /\ [][NextMirror]_vars

\* the halves reached the comparison of the two sides
Compared(via) ==
    /\ pc = "measured" /\ mirror.via = via
    /\ via = "_analyze_reflection_symmetry" => (mirror.num_spots > 0 /\ mirror.m00 > 0)

Unstable == mirror.left_std_zero \/ mirror.right_std_zero

\* a score in [0, 1] that is 0 below 10 valid pixels and the
\* brightness-difference score where the correlation is unstable
DefinedScore(via) ==
    Compared(via) =>
        /\ mirror.score.kind = "num"
        /\ RatLeq(Frac(0, 1), mirror.score) /\ RatLeq(mirror.score, Frac(1, 1))
        /\ mirror.valid < 10 => mirror.score.num = 0
        /\ (mirror.valid >= 10 /\ Unstable) =>
               RatEq(mirror.score, Frac(100 - mirror.brightness_diff, 100))

\* C23: both mirror-symmetry measurements return a score in [0, 1], 0 with
\* fewer than 10 valid pixels, and the brightness-difference score, never
\* NaN, where a side has near-zero deviation or the correlation is NaN.
C23_MirrorScoreDefined ==
    DefinedScore("compute_mirror_symmetry")
        /\ DefinedScore("_analyze_reflection_symmetry")

(***************************************************************************)
(* Detector and grader of one DiamondClassifier over several images        *)
(***************************************************************************)
\* a classify_image call has passed the construction of detector and grader
InCall == pc \in {"detect", "classify", "returned"} /\ call.image # 0

\* C24: in every classify_image call the detector's area bounds are those
\* of the call's own image size and the grader's threshold is that of the
\* call's own image width.
C24_ParametersOfThisImage ==
    InCall =>
        /\ classifier.detector.some
        /\ classifier.detector.val = _initialize_detector(call.height, call.width)
        /\ classifier.grader.some
        /\ classifier.grader.val = _initialize_grader(call.width)

(***************************************************************************)
(* grade_diamonds on regions that lie close together                       *)
(***************************************************************************)
\* three centres on one line, 12 and 13 pixels from the middle one
NearCenters == {<<100, 100>>, <<100, 88>>, <<100, 113>>}

InitGradeNear ==
    /\ \E co \in BOOLEAN, w \in {None} \cup {Some(x) : x \in ImageWidths} :
           grader = PickupGrader(co, w)
    /\ \E n \in 0..MaxRois :
         \E cs \in [1..n -> NearCenters] :
            /\ Placeable(cs)
            /\ \E at \in [1..n -> RoiAttrs] : diamond_rois = RoiList(cs, at)
    /\ graded_diamonds = <<>>
    /\ pc = "start"
    /\ probe = NoProbe
    /\ nested_in = <<>>
    /\ to_remove = {}
    /\ filtered_rois = <<>>
    /\ LaterIdle

SpecGradeNear == InitGradeNear /\ [][NextGrade]_vars

\* center_distance - target_radius - other_radius of two regions
EdgeDistance(a, b) == Norm(a.center, b.center) - Radius(a) - Radius(b)

\* min(target_threshold, other_threshold) of two regions
PairThreshold(g, a, b) ==
    LET ta == _get_safety_threshold(g, a)
        tb == _get_safety_threshold(g, b)
    IN IF ta < tb THEN ta ELSE tb

\* some region other than i lies closer to region i than the pair's threshold
TooCloseToSome(i) ==
    \E j \in DOMAIN diamond_rois :
        /\ j # i
        /\ EdgeDistance(diamond_rois[i], diamond_rois[j])
               < PairThreshold(grader, diamond_rois[i], diamond_rois[j])

\* C25: a region that is not Tilted and has a grade of 0 or more has no
\* other region at an edge distance below the smaller of the two safety
\* thresholds, with the fixed threshold and with the radius-based ones.
C25_NoNeighbourInsideThreshold ==
    pc = "graded" =>
        \A i \in DOMAIN graded_diamonds :
            (diamond_rois[i].orientation # "tilted" /\ IsPickable(graded_diamonds[i]))
                => ~TooCloseToSome(i)

(***************************************************************************)
(* grade_diamonds on the same regions in another order                     *)
(***************************************************************************)
\* the orders of a list of n regions
Orders(n) ==
    {p \in [1..n -> 1..n] : \A i \in 1..n : \A j \in 1..n : p[i] = p[j] => i = j}

\* grade_diamonds(rois) for a reordering rois of diamond_rois; every region
\* keeps its id
grade_reordered ==
    /\ pc = "graded"
    /\ \E p \in Orders(Len(diamond_rois)) :
          LET rois == [k \in 1..Len(diamond_rois) |-> diamond_rois[p[k]]] IN
          reorder' = [rois |-> rois,
                      graded |-> [k \in 1..Len(rois) |->
                                     GradeRoi(grader, rois[k], rois)]]
    /\ pc' = "regraded"
    /\ UNCHANGED <<earlierVars, mergeVars, decisionVars, pipelineVars, drawVars,
                   shapeVars, mirrorVars, rescoreVars, verifyVars>>

NextGradeOrder == grade_diamonds \/ grade_reordered

SpecGradeOrder == InitGrade /\ [][NextGradeOrder]_vars

\* the same grade: both None, both inf, or the same number
SameGrade(a, b) == a.kind = b.kind /\ (a.kind = "num" => RatEq(a, b))

\* C26: graded in any other order of the list, every region has the same
\* grade and the same nearest edge distance as before, also where two
\* neighbours at the same edge distance have different thresholds.
C26_GradeIndependentOfOrder ==
    pc = "regraded" =>
        \A i \in DOMAIN graded_diamonds : \A k \in DOMAIN reorder.graded :
            graded_diamonds[i].roi = reorder.graded[k].roi =>
                /\ SameGrade(graded_diamonds[i].grade, reorder.graded[k].grade)
                /\ graded_diamonds[i].nearest_distance
                       = reorder.graded[k].nearest_distance

(***************************************************************************)
(* The counts of an ImageResult                                            *)
(***************************************************************************)
\* C27: in the result of classify_image the Table and Tilted counts add up
\* to the number of regions, and so do the pickable, invalid and Tilted
\* counts.
C27_CountsAddUp ==
    ImageClassified =>
        /\ call.result.table_count + call.result.tilted_count
               = call.result.total_diamonds
        /\ call.result.pickable_count + call.result.invalid_count
               + call.result.tilted_count = call.result.total_diamonds

\* an image with one Tilted region and one pickable region
C27_Witness ==
    /\ ImageClassified
    /\ call.result.total_diamonds = 2
    /\ call.result.tilted_count = 1
    /\ call.result.pickable_count = 1

(***************************************************************************)
(* _make_decision again after one of the three primary scores was raised   *)
(***************************************************************************)
\* the scores of decision with one of them raised to a higher level
RaisedScores ==
    {[which |-> "outline_sym", outline_sym |-> o,
      reflection_sym |-> decision.reflection_sym,
      aspect_ratio |-> decision.aspect_ratio] :
         o \in {x \in OutlineLevels : x > decision.outline_sym}}
    \cup {[which |-> "reflection_sym", outline_sym |-> decision.outline_sym,
           reflection_sym |-> r, aspect_ratio |-> decision.aspect_ratio] :
              r \in {x \in ReflectionLevels : x > decision.reflection_sym}}
    \cup {[which |-> "aspect_ratio", outline_sym |-> decision.outline_sym,
           reflection_sym |-> decision.reflection_sym, aspect_ratio |-> a] :
              a \in {x \in AspectLevels : x > decision.aspect_ratio}}

\* _make_decision with one score raised, spot and the other scores as before
make_decision_raised ==
    /\ pc = "decided"
    /\ decision.via = "_make_decision"
    /\ \E s \in RaisedScores :
          LET d == _make_decision(PureGeometricClassifier, s.outline_sym,
                       s.reflection_sym, decision.has_spot, decision.spot_sym,
                       s.aspect_ratio)
          IN rescored' = [which |-> s.which, outline_sym |-> s.outline_sym,
                          reflection_sym |-> s.reflection_sym,
                          aspect_ratio |-> s.aspect_ratio,
                          orientation |-> d.orientation,
                          confidence |-> d.confidence]
    /\ pc' = "rescored"
    /\ UNCHANGED <<earlierVars, mergeVars, decisionVars, pipelineVars, drawVars,
                   shapeVars, mirrorVars, orderVars, verifyVars>>

NextDecisionRaise == make_decision \/ make_decision_raised

SpecDecisionRaise == InitDecision /\ [][NextDecisionRaise]_vars

\* the mixed-signal rule decided
MixedSignals ==
    pc \in {"decided", "rescored"} /\ decision.via = "_make_decision"
        /\ ~StrongTable /\ ~StrongTilted

\* C28: under the mixed-signal rule a weighted score of 0.60 or more gives
\* table whatever the spot is, so that blending never turns table into
\* tilted; and raising one of outline, reflection and aspect never changes a
\* table decision into tilted.
C28_SpotAndRaiseOnlyHelpTable ==
    /\ (MixedSignals /\ WeightedScore >= 20 * 60) => decision.orientation = "table"
    /\ (pc = "rescored" /\ decision.orientation = "table")
           => rescored.orientation = "table"

\* a score inside the band at 0.60 or above with a qualifying spot blended
\* in, and a table decision made by the blending that was raised out of the
\* band
C28_Witness ==
    /\ pc = "rescored" /\ MixedSignals /\ SpotCounts
    /\ WeightedScore < 20 * 60
    /\ decision.orientation = "table"
    /\ 5 * rescored.outline_sym + 7 * rescored.reflection_sym
           + 8 * rescored.aspect_ratio >= 20 * 65
    /\ rescored.orientation = "table"

(***************************************************************************)
(* _merge_masks: which input masks each output mask absorbed               *)
(***************************************************************************)
\* the for loop over i (lines 120-154), keeping for every output mask the
\* positions j whose used[j] its iteration set
RECURSIVE AbsorbedFrom(_, _, _, _, _)
AbsorbedFrom(d, binary_masks, i, used, out) ==
    IF i > Len(binary_masks) THEN out
    ELSE IF used[i] THEN AbsorbedFrom(d, binary_masks, i + 1, used, out)
    ELSE LET st == MergeWhile(d, binary_masks,
                      [current_merged |-> binary_masks[i],
                       current_area |-> Cardinality(binary_masks[i]),
                       used |-> [used EXCEPT ![i] = TRUE],
                       changed |-> TRUE])
         IN AbsorbedFrom(d, binary_masks, i + 1, st.used,
                Append(out, {j \in 1..Len(binary_masks) : st.used[j] /\ ~used[j]}))

\* the positions absorbed by each output mask of _merge_masks(masks_list)
Absorbed ==
    AbsorbedFrom(detector, [i \in 1..Len(masks_list) |-> Binarize(masks_list[i])],
                 1, [i \in 1..Len(masks_list) |-> FALSE], <<>>)

\* the pixel union of the binarized input masks at the positions in group
UnionOfInputs(group) == UNION {Binarize(masks_list[i]) : i \in group}

\* C29: with merging enabled _merge_masks returns, every input mask is
\* absorbed into exactly one output mask, every output mask is the pixel
\* union of the binarized input masks it absorbed, and there are no more
\* output masks than input masks; with merging disabled or without masks
\* the input is returned unchanged.
C29_MergePartitionsInput ==
    pc = "merged" =>
        IF detector.merge_overlapping /\ Len(masks_list) > 0
        THEN /\ Len(merged) = Len(Absorbed)
             /\ Len(merged) <= Len(masks_list)
             /\ \A i \in 1..Len(masks_list) :
                   Cardinality({k \in 1..Len(Absorbed) : i \in Absorbed[k]}) = 1
             /\ \A k \in 1..Len(merged) :
                   /\ Absorbed[k] # {}
                   /\ merged[k] = AsFloat32(UnionOfInputs(Absorbed[k]))
        ELSE merged = masks_list

\* three masks of which the last two are merged into one
C29_Witness ==
    /\ pc = "merged" /\ detector.merge_overlapping
    /\ Len(masks_list) = 3 /\ Len(merged) = 2
    /\ Absorbed = <<{1}, {2, 3}>>
    /\ Binarize(merged[2]) # Binarize(masks_list[2])
    /\ Binarize(merged[2]) # Binarize(masks_list[3])

(***************************************************************************)
(* verify_interactive.py: verify_batch and InteractiveVerifier             *)
(*                                                                         *)
(* An image file is known by whether cv2.imread reads it and by the        *)
(* predicted orientations of the regions classify_image finds in it; the   *)
(* region at position k has roi_id k - 1.                                  *)
(***************************************************************************)
MaxVerified == 2    \* regions of one image to verify

VerifyCatalogue ==
    {[readable |-> FALSE, classifications |-> <<>>]}
    \cup {[readable |-> TRUE, classifications |-> c] :
             c \in UNION {[1..n -> {"table", "tilted"}] : n \in 0..MaxVerified}}

Keys == {"y", "n", "s", "q", "x"}

InitVerify ==
    /\ \E n \in 1..MaxImages : \E files \in [1..n -> VerifyCatalogue] :
           session = [NoSession EXCEPT !.image_files = files]
    /\ verifier = NewVerifier
    /\ pc = "verify_batch"
    /\ EarlierIdle
    /\ MergeIdle
    /\ DecisionIdle
    /\ PipelineIdle
    /\ DrawIdle
    /\ ShapeIdle
    /\ MirrorIdle
    /\ OrderIdle
    /\ RescoreIdle

\* the record _on_key appends for the region at current_idx
Verification(v, is_correct, verified_orientation) ==
    [image |-> v.current_image_path, roi_id |-> v.current_idx,
     predicted_orientation |-> v.current_result[v.current_idx + 1],
     is_correct |-> is_correct, verified_orientation |-> verified_orientation]

\* verify_image (lines 34-64) up to the blocking plt.show of
\* _start_interactive_session (lines 66-85)
verify_image ==
    /\ pc = "verify_batch"
    /\ LET image == session.image_files[session.img_idx] IN
       IF ~image.readable
       THEN /\ verifier' = [verifier EXCEPT !.current_image_path = session.img_idx]
            /\ pc' = "after_image"
            /\ UNCHANGED session
       ELSE IF Len(image.classifications) = 0
       THEN /\ verifier' = [verifier EXCEPT !.current_image_path = session.img_idx,
                                            !.current_result = image.classifications]
            /\ pc' = "after_image"
            /\ UNCHANGED session
       ELSE /\ verifier' = [verifier EXCEPT !.current_image_path = session.img_idx,
                                            !.current_result = image.classifications,
                                            !.current_idx = 0]
            /\ session' = [session EXCEPT !.figure = TRUE]
            /\ pc' = "session"
    /\ UNCHANGED <<earlierVars, mergeVars, decisionVars, pipelineVars, drawVars,
                   shapeVars, mirrorVars, orderVars, rescoreVars>>

\* lines 158-165 of _on_key: after the last region the figure is closed
AfterKey(v) ==
    IF v.current_idx >= Len(v.current_result)
    THEN [v EXCEPT !.should_quit = TRUE]
    ELSE v

\* _on_key (lines 87-165) for one key pressed in the open figure; the
\* answer to the prompts after 'n' is correct_orientation.  'n' closes the
\* figure and opens a new one (lines 121, 147-149): the blocking plt.show
\* goes on with the new figure (reopened) or ends with the old one
on_key ==
    /\ pc = "session"
    /\ session.figure
    /\ \E key \in Keys : \E correct_orientation \in {"table", "tilted"} :
       \E reopened \in BOOLEAN :
        IF verifier.current_idx >= Len(verifier.current_result)
        THEN UNCHANGED <<verifier, session>>
        ELSE IF key = "q"
        THEN /\ verifier' = [verifier EXCEPT !.should_quit = TRUE]
             /\ session' = [session EXCEPT !.figure = FALSE, !.q_pressed = TRUE]
        ELSE LET predicted == verifier.current_result[verifier.current_idx + 1]
                 answered ==
                     IF key = "y"
                     THEN [verifier EXCEPT
                             !.verifications =
                                 Append(@, Verification(verifier, TRUE, predicted)),
                             !.current_idx = @ + 1]
                     ELSE IF key = "n"
                     THEN [verifier EXCEPT
                             !.verifications =
                                 Append(@, Verification(verifier, FALSE,
                                                        correct_orientation)),
                             !.current_idx = @ + 1]
                     ELSE IF key = "s"
                     THEN [verifier EXCEPT !.current_idx = @ + 1]
                     ELSE verifier
                 after == AfterKey(answered)
             IN /\ verifier' = after
                /\ session' =
                     [session EXCEPT !.figure =
                         /\ after.current_idx < Len(after.current_result)
                         /\ (key = "n" => reopened)]
    /\ UNCHANGED <<pc, earlierVars, mergeVars, decisionVars, pipelineVars, drawVars,
                   shapeVars, mirrorVars, orderVars, rescoreVars>>

\* plt.show(block=True) (line 85) returns once the figure is closed, and
\* verify_image returns with it
show_returns ==
    /\ pc = "session"
    /\ ~session.figure
    /\ pc' = "after_image"
    /\ UNCHANGED <<verifier, session, earlierVars, mergeVars, decisionVars,
                   pipelineVars, drawVars, shapeVars, mirrorVars, orderVars,
                   rescoreVars>>

\* verify_batch lines 310-316: break on should_quit, else the next file
next_file ==
    /\ pc = "after_image"
    /\ IF verifier.should_quit
       THEN pc' = "save" /\ UNCHANGED session
       ELSE IF session.img_idx < Len(session.image_files)
       THEN /\ session' = [session EXCEPT !.img_idx = @ + 1]
            /\ pc' = "verify_batch"
       ELSE pc' = "save" /\ UNCHANGED session
    /\ UNCHANGED <<verifier, earlierVars, mergeVars, decisionVars, pipelineVars,
                   drawVars, shapeVars, mirrorVars, orderVars, rescoreVars>>

\* save_verifications (lines 225-258): nothing is written without records
save_verifications ==
    /\ pc = "save"
    /\ session' = [session EXCEPT !.saved = verifier.verifications]
    /\ pc' = "verified"
    /\ UNCHANGED <<verifier, earlierVars, mergeVars, decisionVars, pipelineVars,
                   drawVars, shapeVars, mirrorVars, orderVars, rescoreVars>>

NextVerify ==
    verify_image \/ on_key \/ show_returns \/ next_file \/ save_verifications

SpecVerify == InitVerify /\ [][NextVerify]_vars

\* verify_image has returned and every region of the image was answered
ImageFinished ==
    /\ pc = "after_image"
    /\ Len(verifier.current_result) > 0
    /\ verifier.current_image_path = session.img_idx
    /\ verifier.current_idx >= Len(verifier.current_result)

\* the for loop of verify_batch was left before its last file
StoppedEarly ==
    pc \in {"save", "verified"} /\ session.img_idx < Len(session.image_files)

\* no region has two verification records
OneRecordPerRegion ==
    \A i \in 1..Len(verifier.verifications) :
        \A j \in 1..Len(verifier.verifications) :
            (/\ verifier.verifications[i].image = verifier.verifications[j].image
             /\ verifier.verifications[i].roi_id = verifier.verifications[j].roi_id)
                => i = j

\* C30: after an image whose regions were all answered verify_batch goes on
\* to the next image, it stops before its last image only after 'q', no
\* region gets more than one verification record, and while an image is
\* verified the current index never exceeds the number of its regions.
C30_VerifyBatchProgress ==
    /\ [](StoppedEarly => session.q_pressed)
    /\ [](OneRecordPerRegion)
    /\ [](pc = "session" => verifier.current_idx <= Len(verifier.current_result))
    /\ [][(ImageFinished /\ ~session.q_pressed
              /\ session.img_idx < Len(session.image_files))
             => (pc' = "verify_batch" /\ session'.img_idx = session.img_idx + 1)]_vars

====
